---------------------------- MODULE Spec2Model ----------------------------
(***************************************************************************)
(* A model of the markup <-> formatting-run codec of PPT-Assistant:        *)
(*   html_processor.py      the tag-stack parser, the list and header      *)
(*                          preprocessing and the HTML applier             *)
(*   markdown_processor.py  the multi-pass regex parser, the list and      *)
(*                          header preprocessing and its applier           *)
(*   slide_context_reader.py, lightning_slide_context_reader.py            *)
(*                          the reverse codec and the slide context cache  *)
(*   ppt_smolagent.py       the tools that write to the document           *)
(*                                                                         *)
(* Python strings are sequences of one-character strings, so that          *)
(* slicing, searching and hexadecimal parsing are computed character by    *)
(* character.  Tag names and attribute names are only ever compared whole  *)
(* and are kept as atomic strings.                                         *)
(*                                                                         *)
(* The module holds several specifications over one set of variables:      *)
(*   SpecHtml   feeds tag/text events to PowerPointHTMLParser              *)
(*   SpecMd     applies parse_markdown_text to bounded inputs              *)
(*   SpecApply  runs apply_html_formatting / apply_markdown_formatting     *)
(*              against a target whose members may raise                   *)
(*              and, on single runs, over a wide set of colour values      *)
(*   SpecMdLists    applies process_markdown_lists to bounded inputs       *)
(*   SpecHtmlLists  applies process_html_lists to bounded inputs           *)
(*   SpecWrite      runs the write path of add_textbox and of              *)
(*                  replace_textbox_content                                *)
(*   SpecRound      writes markup to a target and reads it back            *)
(*   SpecContext    interleaves the tools, the reads of the slide context  *)
(*                  and the user's changes of slide                        *)
(*   SpecModify     runs modify_text_in_textbox                            *)
(*   SpecScan       runs convert_powerpoint_text_to_html over a text range *)
(*                  whose queries may raise; SpecScanRuns adds that the    *)
(*                  loop keeps running                                     *)
(*   SpecNest       runs parse_markdown_text call by call, with its        *)
(*                  recursive calls on a stack; SpecNestRuns adds that a   *)
(*                  call keeps running                                     *)
(* Each specification leaves the variables of the others at their idle     *)
(* values.                                                                 *)
(***************************************************************************)
EXTENDS Integers, Sequences, FiniteSets, TLC

VARIABLES
    mode,              \* which component this behaviour exercises
    \* ---- PowerPointHTMLParser (html_processor.py:12-106)
    plain_text,        \* self.plain_text
    format_segments,   \* self.format_segments
    tag_stack,         \* self.tag_stack
    current_position,  \* self.current_position
    events,            \* number of events fed so far
    closes,            \* number of closing-tag events fed so far
    html_result,       \* what parse_html_text returned, or NotReturned
    \* ---- parse_markdown_text (markdown_processor.py:11-109)
    markdown_text,     \* the argument
    md_result,         \* what parse_markdown_text returned, or NotReturned
    \* ---- the appliers (html_processor.py:222-309, markdown_processor.py:169-248)
    applier,           \* "html" or "markdown"
    ap_plain,          \* argument plain_text
    ap_segments,       \* argument segments
    raises,            \* the target: pairs <<run index, member>> whose call raises
    calls,             \* every call made on the target, in order
    ap_state,          \* "idle", "ready", "returned" or "raised"
    \* ---- process_markdown_lists (markdown_processor.py:112-166) and
    \* ---- process_html_lists (html_processor.py:137-219)
    list_text,         \* the argument
    list_result,       \* what the function returned, or NoLists
    \* ---- the write path of add_textbox and replace_textbox_content
    \* ---- (ppt_smolagent.py:42-157, 280-359)
    wp_tool,           \* the tool called
    wp_html,           \* argument html_text
    wp_font_size,      \* argument font_size (0 for None)
    wp_calls,          \* every call made on the text range, in order
    wp_state,          \* "idle", "ready" or "returned"
    \* ---- the round trip: parse_html_text, apply_html_formatting, then
    \* ---- convert_powerpoint_text_to_html (slide_context_reader.py:224-362)
    rt_html,           \* the markup written
    rt_raises,         \* the target: the Font members whose access raises
    rt_chars,          \* the target: its characters with their attributes
    rt_default,        \* what the target answers for the colour of the whole range
    rt_encoded,        \* what convert_powerpoint_text_to_html returned
    rt_state,          \* "idle", "ready", "written" or "read"
    \* ---- the slide context cache (lightning_slide_context_reader.py:559-603)
    \* ---- and the tools that change the document (ppt_smolagent.py)
    slide_rev,         \* the document: per slide, how often it was changed
    active_slide,      \* the slide shown in the window
    current_slide_index,   \* self.current_slide_index (0 for None)
    current_slide_context, \* self.current_slide_context
    ctx_returned,      \* what the last call returned when it was a read
    ctx_op,            \* the last operation
    ctx_read,          \* whether it called read_slide_content
    \* ---- modify_text_in_textbox (ppt_smolagent.py:198-221, 280-608)
    mt_text,           \* the text of the textbox
    mt_find,           \* argument find_pattern
    mt_replacement,    \* argument replacement_text
    mt_calls,          \* every formatting call made on the text range
    mt_report,         \* the kind of message returned
    mt_state,          \* "idle", "ready" or "returned"
    \* ---- the scan of convert_powerpoint_text_to_html, one iteration of the
    \* ---- while loop at a time (slide_context_reader.py:241-358)
    sc_chars,          \* the target: its characters with their attributes
    sc_default,        \* default_color
    sc_i,              \* i, the 0-based index into full_text
    sc_current_pos,    \* current_pos, the 1-based position on the target
    sc_html_parts,     \* html_parts, each part with its characters
    sc_faulted,        \* whether the target was set to raise so far
    sc_state,          \* "idle", "called", "scanning" or "returned"
    \* ---- parse_markdown_text with its recursive calls, one step of a loop at a
    \* ---- time (markdown_processor.py:23-109)
    nest_text,         \* argument markdown_text of the outermost call
    nest_stack,        \* the calls in progress, outermost first
    nest_result        \* what the outermost call returned

vars == <<mode, plain_text, format_segments, tag_stack, current_position,
          events, closes, html_result, markdown_text, md_result,
          applier, ap_plain, ap_segments, raises, calls, ap_state,
          list_text, list_result,
          wp_tool, wp_html, wp_font_size, wp_calls, wp_state,
          rt_html, rt_raises, rt_chars, rt_default, rt_encoded, rt_state,
          slide_rev, active_slide, current_slide_index,
          current_slide_context, ctx_returned, ctx_op, ctx_read,
          mt_text, mt_find, mt_replacement, mt_calls, mt_report, mt_state,
          sc_chars, sc_default, sc_i, sc_current_pos, sc_html_parts,
          sc_faulted, sc_state,
          nest_text, nest_stack, nest_result>>

htmlVars == <<plain_text, format_segments, tag_stack, current_position,
              events, closes, html_result>>
mdVars == <<markdown_text, md_result>>
apVars == <<applier, ap_plain, ap_segments, raises, calls, ap_state>>

listVars == <<list_text, list_result>>

\* the variables of the components modelled further down
wpVars == <<wp_tool, wp_html, wp_font_size, wp_calls, wp_state>>

rtVars == <<rt_html, rt_raises, rt_chars, rt_default, rt_encoded, rt_state>>

ctxVars == <<slide_rev, active_slide, current_slide_index,
             current_slide_context, ctx_returned, ctx_op, ctx_read>>

mtVars == <<mt_text, mt_find, mt_replacement, mt_calls, mt_report, mt_state>>

scVars == <<sc_chars, sc_default, sc_i, sc_current_pos, sc_html_parts,
            sc_faulted, sc_state>>

nestVars == <<nest_text, nest_stack, nest_result>>

laterVars == <<listVars, wpVars, rtVars, ctxVars, mtVars, scVars, nestVars>>

NotReturned == [returned |-> FALSE, plain |-> <<>>, segments |-> <<>>]

Returned(p, segs) == [returned |-> TRUE, plain |-> p, segments |-> segs]

(***************************************************************************)
(* Bounds of the model.                                                    *)
(***************************************************************************)
MaxEvents == 6      \* events fed to the HTML parser
MaxPieces == 4      \* fragments concatenated into a Markdown input
MaxRuns == 2        \* runs handed to an applier
MaxText == 3        \* characters of the applier's plain_text

(***************************************************************************)
(* Strings as sequences of characters.                                     *)
(***************************************************************************)
Min(a, b) == IF a <= b THEN a ELSE b

\* the element of a one-element set.  Only({F(x) : x \in {e}}) is F(e) with
\* e evaluated once and handed to F as a value.
Only(S) == CHOOSE r \in S : TRUE

\* Python s[lo:hi] with 0 <= lo, hi (0-based, hi exclusive, clamped).
Slice(s, lo, hi) ==
    LET h == Min(hi, Len(s))
    IN  IF lo >= h THEN <<>> ELSE [k \in 1..(h - lo) |-> s[lo + k]]

\* s[lo:]
SliceFrom(s, lo) == Slice(s, lo, Len(s))

\* s.startswith(lit) tested at 0-based offset i
StartsWithAt(s, i, lit) ==
    /\ i >= 0
    /\ i + Len(lit) <= Len(s)
    /\ \A k \in 1..Len(lit) : s[i + k] = lit[k]

RECURSIVE Flatten(_)
Flatten(ss) == IF ss = <<>> THEN <<>> ELSE Head(ss) \o Flatten(Tail(ss))


Whitespace == {" ", "\t", "\n", "\r"}

RECURSIVE LStrip(_)
LStrip(s) ==
    IF s # <<>> /\ Head(s) \in Whitespace THEN LStrip(Tail(s)) ELSE s

RECURSIVE RStrip(_)
RStrip(s) ==
    IF s # <<>> /\ s[Len(s)] \in Whitespace
    THEN RStrip(SubSeq(s, 1, Len(s) - 1))
    ELSE s

\* str.strip()
Strip(s) == RStrip(LStrip(s))

UpperCase == <<"A", "B", "C", "D", "E", "F", "G", "H", "I", "J", "K", "L", "M",
               "N", "O", "P", "Q", "R", "S", "T", "U", "V", "W", "X", "Y", "Z">>

LowerCase == <<"a", "b", "c", "d", "e", "f", "g", "h", "i", "j", "k", "l", "m",
               "n", "o", "p", "q", "r", "s", "t", "u", "v", "w", "x", "y", "z">>

LowerTable ==
    [c \in {UpperCase[i] : i \in 1..Len(UpperCase)} |->
        LowerCase[CHOOSE i \in 1..Len(UpperCase) : UpperCase[i] = c]]

LowerChar(c) == IF c \in DOMAIN LowerTable THEN LowerTable[c] ELSE c

\* str.lower()
Lower(s) == [k \in 1..Len(s) |-> LowerChar(s[k])]

\* 0-based offset of the first occurrence of lit in s at or after offset
\* from, or -1 (str.find).
Find(s, lit, from) ==
    IF \E i \in from..(Len(s) - Len(lit)) : StartsWithAt(s, i, lit)
    THEN CHOOSE i \in from..(Len(s) - Len(lit)) :
            /\ StartsWithAt(s, i, lit)
            /\ \A j \in from..(i - 1) : ~StartsWithAt(s, j, lit)
    ELSE -1

\* lit in s
Contains(s, lit) == Find(s, lit, 0) >= 0

\* s.split(sep) for a one-character separator: the list of pieces
RECURSIVE Split(_, _)
Split(s, sep) ==
    LET i == Find(s, <<sep>>, 0)
    IN  IF i < 0 THEN <<s>>
        ELSE <<Slice(s, 0, i)>> \o Split(SliceFrom(s, i + 1), sep)

(***************************************************************************)
(* Formatting dictionaries.  A Python dict with the keys bold, italic,     *)
(* underline, strikethrough, color, background_color and header is a       *)
(* record holding the set of keys present and one value per key (the       *)
(* value of an absent key is a fixed filler).                              *)
(***************************************************************************)
NoFormatting ==
    [keys |-> {}, bold |-> FALSE, italic |-> FALSE, underline |-> FALSE,
     strikethrough |-> FALSE, color |-> <<>>, background_color |-> <<>>,
     header |-> 0]

\* d[k] = v
DictSet(d, k, v) == [d EXCEPT !.keys = @ \cup {k}, ![k] = v]

\* d.update(other)
DictUpdate(d, other) ==
    [keys |-> d.keys \cup other.keys,
     bold |-> IF "bold" \in other.keys THEN other.bold ELSE d.bold,
     italic |-> IF "italic" \in other.keys THEN other.italic ELSE d.italic,
     underline |-> IF "underline" \in other.keys THEN other.underline
                   ELSE d.underline,
     strikethrough |-> IF "strikethrough" \in other.keys
                       THEN other.strikethrough ELSE d.strikethrough,
     color |-> IF "color" \in other.keys THEN other.color ELSE d.color,
     background_color |-> IF "background_color" \in other.keys
                          THEN other.background_color
                          ELSE d.background_color,
     header |-> IF "header" \in other.keys THEN other.header ELSE d.header]

\* truth value of d.get(k) for a boolean-valued key
GetFlag(d, k) == k \in d.keys /\ d[k] = TRUE

\* truth value of d.get(k) for a string-valued key
GetText(d, k) == k \in d.keys /\ d[k] # <<>>

Segment(st, ln, f) == [start |-> st, length |-> ln, formatting |-> f]

\* list.sort(key=lambda x: x['start']): a stable sort by start
RECURSIVE InsertByStart(_, _)
InsertByStart(sorted, seg) ==
    Only({IF srt = <<>> THEN <<seg>>
          ELSE IF srt[Len(srt)].start <= seg.start THEN Append(srt, seg)
          ELSE Append(InsertByStart(SubSeq(srt, 1, Len(srt) - 1), seg),
                      srt[Len(srt)])
          : srt \in {sorted}})

RECURSIVE SortByStart(_)
SortByStart(segs) ==
    IF segs = <<>> THEN <<>>
    ELSE InsertByStart(SortByStart(SubSeq(segs, 1, Len(segs) - 1)),
                       segs[Len(segs)])

(***************************************************************************)
(* PowerPointHTMLParser.                                                   *)
(***************************************************************************)
HeaderTags == {"h0", "h1", "h2", "h3", "h4", "h5", "h6", "h7", "h8", "h9"}

\* int(tag[1]) for a tag h<digit>
HeaderLevel(tag) ==
    CASE tag = "h0" -> 0 [] tag = "h1" -> 1 [] tag = "h2" -> 2
      [] tag = "h3" -> 3 [] tag = "h4" -> 4 [] tag = "h5" -> 5
      [] tag = "h6" -> 6 [] tag = "h7" -> 7 [] tag = "h8" -> 8
      [] tag = "h9" -> 9

\* one declaration "key: value" of a style string, applied to formatting
StyleProperty(formatting, prop) ==
    IF ~Contains(prop, <<":">>) THEN formatting
    ELSE
      LET c == Find(prop, <<":">>, 0)
          key == Lower(Strip(Slice(prop, 0, c)))
          value == Strip(SliceFrom(prop, c + 1))
      IN  IF key = <<"c", "o", "l", "o", "r">>
          THEN DictSet(formatting, "color", value)
          ELSE IF key = <<"b", "a", "c", "k", "g", "r", "o", "u", "n", "d",
                          "-", "c", "o", "l", "o", "r">>
                  \/ key = <<"b", "a", "c", "k", "g", "r", "o", "u", "n", "d">>
          THEN DictSet(formatting, "background_color", value)
          ELSE IF key = <<"f", "o", "n", "t", "-", "w", "e", "i", "g", "h", "t">>
                  /\ value = <<"b", "o", "l", "d">>
          THEN DictSet(formatting, "bold", TRUE)
          ELSE IF key = <<"f", "o", "n", "t", "-", "s", "t", "y", "l", "e">>
                  /\ value = <<"i", "t", "a", "l", "i", "c">>
          THEN DictSet(formatting, "italic", TRUE)
          ELSE IF key = <<"t", "e", "x", "t", "-", "d", "e", "c", "o", "r", "a",
                          "t", "i", "o", "n">>
          THEN LET u == IF Contains(value, <<"u", "n", "d", "e", "r", "l", "i",
                                              "n", "e">>)
                        THEN DictSet(formatting, "underline", TRUE)
                        ELSE formatting
               IN  IF Contains(value, <<"l", "i", "n", "e", "-", "t", "h", "r",
                                         "o", "u", "g", "h">>)
                   THEN DictSet(u, "strikethrough", TRUE)
                   ELSE u
          ELSE formatting

RECURSIVE StyleProperties(_, _)
StyleProperties(formatting, props) ==
    IF props = <<>> THEN formatting
    ELSE StyleProperties(
            IF Strip(Head(props)) = <<>> THEN formatting
            ELSE StyleProperty(formatting, Strip(Head(props))),
            Tail(props))

\* PowerPointHTMLParser._parse_style
ParseStyle(style_str) == StyleProperties(NoFormatting, Split(style_str, ";"))

\* the loop over attrs of a span tag; an attribute is <<name, value>>
RECURSIVE SpanFormatting(_, _)
SpanFormatting(formatting, attrs) ==
    IF attrs = <<>> THEN formatting
    ELSE LET a == Head(attrs)
         IN  SpanFormatting(
                IF a[1] = "style" THEN DictUpdate(formatting, ParseStyle(a[2]))
                ELSE IF a[1] = "color" THEN DictSet(formatting, "color", a[2])
                ELSE formatting,
                Tail(attrs))

\* the formatting handle_starttag computes for (tag, attrs)
StartTagFormatting(tag, attrs) ==
    IF tag \in {"b", "strong"} THEN DictSet(NoFormatting, "bold", TRUE)
    ELSE IF tag \in {"i", "em"} THEN DictSet(NoFormatting, "italic", TRUE)
    ELSE IF tag = "u" THEN DictSet(NoFormatting, "underline", TRUE)
    ELSE IF tag \in {"s", "strike", "del"}
    THEN DictSet(NoFormatting, "strikethrough", TRUE)
    ELSE IF tag = "span" THEN SpanFormatting(NoFormatting, attrs)
    ELSE IF tag \in HeaderTags
    THEN DictSet(NoFormatting, "header", HeaderLevel(tag))
    ELSE NoFormatting

\* the entry handle_starttag pushes
StackEntry(tag, pos, attrs) ==
    [tag |-> tag, start_position |-> pos,
     formatting |-> StartTagFormatting(tag, attrs)]

\* the strict last-in first-out reading: only the top entry is looked at
MatchingEntryTopOnly(stack, tag) ==
    IF stack # <<>> /\ stack[Len(stack)].tag = tag THEN Len(stack) ELSE 0

\* handle_endtag's scan: the index (1-based) of the entry nearest the top
\* with this tag name, or 0
MatchingEntry(stack, tag) ==
    IF \E i \in 1..Len(stack) : stack[i].tag = tag
    THEN CHOOSE i \in 1..Len(stack) :
            /\ stack[i].tag = tag
            /\ \A j \in (i + 1)..Len(stack) : stack[j].tag # tag
    ELSE 0

\* list.pop(i), 1-based
RemoveAt(seq, i) == SubSeq(seq, 1, i - 1) \o SubSeq(seq, i + 1, Len(seq))

\* the segment handle_endtag appends for a popped entry
SegmentLengthPlusOne(cur, tag_info) == cur - tag_info.start_position + 1

SegmentLength(cur, tag_info) == cur - tag_info.start_position

ClosedSegment(cur, tag_info) ==
    Segment(tag_info.start_position + 1, SegmentLength(cur, tag_info),
            tag_info.formatting)

\* format_segments after handle_endtag popped tag_info
SegmentsAfterClose(segs, cur, tag_info) ==
    IF cur > tag_info.start_position
    THEN Append(segs, ClosedSegment(cur, tag_info))
    ELSE segs

(***************************************************************************)
(* The events fed to the parser.  HTMLParser.feed turns the markup into    *)
(* calls of handle_starttag, handle_endtag and handle_data; the model      *)
(* feeds every sequence of such calls up to MaxEvents.                     *)
(***************************************************************************)
StyleColorRed == <<"c", "o", "l", "o", "r", ":", " ", "r", "e", "d">>

StyleColorUnknown ==
    <<"c", "o", "l", "o", "r", ":", " ", "c", "h", "a", "r", "t", "r", "e",
      "u", "s", "e">>

StartTagEvents ==
    {<<"b", <<>>>>, <<"i", <<>>>>, <<"span", <<>>>>,
     <<"span", <<<<"style", StyleColorRed>>>>>>,
     <<"span", <<<<"style", StyleColorUnknown>>>>>>}

EndTagEvents == {"b", "i", "span"}

DataEvents == {<<"x">>, <<"y", "z">>}

NoLists == [returned |-> FALSE, text |-> <<>>, list_info |-> <<>>]

IdleLists ==
    /\ list_text = <<>>
    /\ list_result = NoLists

IdleWrite ==
    /\ wp_tool = "none"
    /\ wp_html = <<>>
    /\ wp_font_size = 0
    /\ wp_calls = <<>>
    /\ wp_state = "idle"

IdleRound ==
    /\ rt_html = <<>>
    /\ rt_raises = {}
    /\ rt_chars = <<>>
    /\ rt_default = 0
    /\ rt_encoded = <<>>
    /\ rt_state = "idle"

NoContext == [slide |-> 0, rev |-> 0]

IdleContext ==
    /\ slide_rev = <<>>
    /\ active_slide = 0
    /\ current_slide_index = 0
    /\ current_slide_context = NoContext
    /\ ctx_returned = NoContext
    /\ ctx_op = "idle"
    /\ ctx_read = FALSE

IdleModify ==
    /\ mt_text = <<>>
    /\ mt_find = <<>>
    /\ mt_replacement = <<>>
    /\ mt_calls = <<>>
    /\ mt_report = "none"
    /\ mt_state = "idle"

IdleScan ==
    /\ sc_chars = <<>>
    /\ sc_default = 0
    /\ sc_i = 0
    /\ sc_current_pos = 0
    /\ sc_html_parts = <<>>
    /\ sc_faulted = FALSE
    /\ sc_state = "idle"

IdleNest ==
    /\ nest_text = <<>>
    /\ nest_stack = <<>>
    /\ nest_result = NotReturned

IdleLater ==
    /\ IdleLists
    /\ IdleWrite
    /\ IdleRound
    /\ IdleContext
    /\ IdleModify
    /\ IdleScan
    /\ IdleNest

IdleHtml ==
    /\ plain_text = <<>>
    /\ format_segments = <<>>
    /\ tag_stack = <<>>
    /\ current_position = 0
    /\ events = 0
    /\ closes = 0
    /\ html_result = NotReturned

IdleMd ==
    /\ markdown_text = <<>>
    /\ md_result = NotReturned

IdleApply ==
    /\ applier = "html"
    /\ ap_plain = <<>>
    /\ ap_segments = <<>>
    /\ raises = {}
    /\ calls = <<>>
    /\ ap_state = "idle"

\* PowerPointHTMLParser() followed by reset_parser()
InitHtml ==
    /\ mode = "html"
    /\ IdleHtml
    /\ IdleMd
    /\ IdleApply
    /\ IdleLater

Feeding == mode = "html" /\ ~html_result.returned /\ events < MaxEvents

HandleStartTag(tag, attrs) ==
    /\ Feeding
    /\ tag_stack' = Append(tag_stack, StackEntry(tag, current_position, attrs))
    /\ events' = events + 1
    /\ UNCHANGED <<mode, plain_text, format_segments, current_position,
                   closes, html_result, mdVars, apVars, laterVars>>

HandleEndTag(tag) ==
    /\ Feeding
    /\ LET i == MatchingEntry(tag_stack, tag)
       IN  IF i = 0
           THEN UNCHANGED <<tag_stack, format_segments>>
           ELSE /\ tag_stack' = RemoveAt(tag_stack, i)
                /\ format_segments' =
                     SegmentsAfterClose(format_segments, current_position,
                                        tag_stack[i])
    /\ events' = events + 1
    /\ closes' = closes + 1
    /\ UNCHANGED <<mode, plain_text, current_position, html_result,
                   mdVars, apVars, laterVars>>

HandleData(data) ==
    /\ Feeding
    /\ plain_text' = plain_text \o data
    /\ current_position' = current_position + Len(data)
    /\ events' = events + 1
    /\ UNCHANGED <<mode, format_segments, tag_stack, closes, html_result,
                   mdVars, apVars, laterVars>>

\* a return that would close the tags left open at the end of the input
ParseHtmlReturnClosingAll ==
    /\ mode = "html"
    /\ ~html_result.returned
    /\ html_result' =
          Returned(plain_text,
                   SortByStart(format_segments
                               \o [k \in 1..Len(tag_stack) |->
                                      ClosedSegment(current_position,
                                                    tag_stack[k])]))
    /\ UNCHANGED <<mode, plain_text, format_segments, tag_stack,
                   current_position, events, closes, mdVars, apVars,
                   laterVars>>

\* parse_html_text after feed() and close(): sort and return
ParseHtmlReturn ==
    /\ mode = "html"
    /\ ~html_result.returned
    /\ html_result' = Returned(plain_text, SortByStart(format_segments))
    /\ UNCHANGED <<mode, plain_text, format_segments, tag_stack,
                   current_position, events, closes, mdVars, apVars,
                   laterVars>>

NextHtml ==
    \/ \E e \in StartTagEvents : HandleStartTag(e[1], e[2])
    \/ \E tag \in EndTagEvents : HandleEndTag(tag)
    \/ \E data \in DataEvents : HandleData(data)
    \/ ParseHtmlReturn

SpecHtml == InitHtml /\ [][NextHtml]_vars

InBounds(seg, text) ==
    /\ 1 <= seg.start
    /\ seg.start + seg.length - 1 <= Len(text)

\* C1: every run the tag-stack parser holds or returns lies inside the
\* plain text: 1 <= start and start + length - 1 <= len(plain_text), after
\* any sequence of opening-tag, closing-tag and text events.
C1_HtmlRunsInBounds ==
    /\ \A k \in 1..Len(format_segments) :
          InBounds(format_segments[k], plain_text)
    /\ html_result.returned =>
          \A k \in 1..Len(html_result.segments) :
             InBounds(html_result.segments[k], html_result.plain)

\* C1 witness: a parse returned two runs (from nested or overlapping tags)
\* that both end at the last character of a non-empty plain text.
C1_Witness ==
    /\ html_result.returned
    /\ Len(html_result.plain) >= 1
    /\ Len(html_result.segments) = 2
    /\ \A k \in 1..2 :
          html_result.segments[k].start + html_result.segments[k].length - 1
             = Len(html_result.plain)

(***************************************************************************)
(* parse_markdown_text.  Each of the eight regular expressions is matched  *)
(* as re.finditer matches it: leftmost first, lazily, without overlap.     *)
(*   block   an opener "{color:V}" or "{bg:V}" with a non-empty V that     *)
(*           holds no "}", lazy content, the closer "{/color}" or "{/bg}"  *)
(*   pair    an opener, lazy content, the closer: the doubled star, the    *)
(*           doubled underscore, the doubled tilde, "[u]" with "[/u]"      *)
(*   single  one delimiter not preceded by itself, one or more characters  *)
(*           other than the delimiter, one delimiter not followed by       *)
(*           itself (the delimiter is the star or the underscore)          *)
(***************************************************************************)
Pattern(kind, open, close, key) ==
    [kind |-> kind, open |-> open, close |-> close, key |-> key]

Patterns ==
    << Pattern("block", <<"{", "c", "o", "l", "o", "r", ":">>,
               <<"{", "/", "c", "o", "l", "o", "r", "}">>, "color"),
       Pattern("block", <<"{", "b", "g", ":">>,
               <<"{", "/", "b", "g", "}">>, "background_color"),
       Pattern("pair", <<"*", "*">>, <<"*", "*">>, "bold"),
       Pattern("pair", <<"_", "_">>, <<"_", "_">>, "bold"),
       Pattern("single", <<"*">>, <<"*">>, "italic"),
       Pattern("single", <<"_">>, <<"_">>, "italic"),
       Pattern("pair", <<"~", "~">>, <<"~", "~">>, "strikethrough"),
       Pattern("pair", <<"[", "u", "]">>, <<"[", "/", "u", "]">>, "underline") >>

NoMatch == [ok |-> FALSE, start |-> 0, end |-> 0, g1 |-> <<>>, g2 |-> <<>>]

Match(st, en, g1, g2) ==
    [ok |-> TRUE, start |-> st, end |-> en, g1 |-> g1, g2 |-> g2]

\* the match of pat that starts exactly at 0-based offset i of s, if any;
\* start and end are match.start() and match.end()
MatchAt(pat, s, i) ==
    IF ~StartsWithAt(s, i, pat.open) THEN NoMatch
    ELSE IF pat.kind = "pair"
    THEN LET j == Find(s, pat.close, i + Len(pat.open))
         IN  IF j < 0 THEN NoMatch
             ELSE Match(i, j + Len(pat.close),
                        Slice(s, i + Len(pat.open), j), <<>>)
    ELSE IF pat.kind = "single"
    THEN LET j == Find(s, pat.close, i + 1)
         IN  IF /\ (i = 0 \/ s[i] # pat.open[1])
                /\ j >= i + 2
                /\ (j + 1 >= Len(s) \/ s[j + 2] # pat.close[1])
             THEN Match(i, j + 1, Slice(s, i + 1, j), <<>>)
             ELSE NoMatch
    ELSE LET k == Find(s, <<"}">>, i + Len(pat.open))
             j == IF k < 0 THEN -1 ELSE Find(s, pat.close, k + 1)
         IN  IF k > i + Len(pat.open) /\ j >= 0
             THEN Match(i, j + Len(pat.close),
                        Slice(s, i + Len(pat.open), k), Slice(s, k + 1, j))
             ELSE NoMatch

\* list(re.finditer(pattern, s, re.DOTALL)) searching from offset pos
RECURSIVE FindAll(_, _, _)
FindAll(pat, s, pos) ==
    Only({IF \E i \in p..(Len(s) - 1) : MatchAt(pat, s, i).ok
          THEN Only({<<m>> \o FindAll(pat, s, m.end)
                     : m \in {MatchAt(pat, s,
                                      CHOOSE i \in p..(Len(s) - 1) :
                                         /\ MatchAt(pat, s, i).ok
                                         /\ \A j \in p..(i - 1) :
                                               ~MatchAt(pat, s, j).ok)}})
          ELSE <<>>
          : p \in {pos}})

\* plain_text[:start] + content + plain_text[end:]
Replace(plain, m, content) ==
    Slice(plain, 0, m.start) \o content \o SliceFrom(plain, m.end)

\* the position recorded for a match: start + 1
RunStart(m) == m.start + 1

\* the nested segments of a block, moved to the block's offset
RebaseNested(m, nested) ==
    [k \in 1..Len(nested) |->
        Segment(m.start + nested[k].start, nested[k].length,
                nested[k].formatting)]

RECURSIVE parse_markdown_text(_)
RECURSIVE ProcessMatches(_, _, _, _)

\* the body of "for match in reversed(matches)" for one match m; st is
\* the pair [plain, segments]
ProcessMatch(pat, st, m) ==
    IF pat.kind = "block"
    THEN LET nested == parse_markdown_text(m.g2)
         IN  [plain |-> Replace(st.plain, m, nested.plain),
              segments |->
                 Append(st.segments,
                        Segment(RunStart(m), Len(nested.plain),
                                DictSet(NoFormatting, pat.key, m.g1)))
                 \o RebaseNested(m, nested.segments)]
    ELSE [plain |-> Replace(st.plain, m, m.g1),
          segments |->
             IF m.g1 # <<>>
             THEN Append(st.segments,
                         Segment(RunStart(m), Len(m.g1),
                                 DictSet(NoFormatting, pat.key, TRUE)))
             ELSE st.segments]

\* the matches n, n-1, ..., 1 processed in that order
ProcessMatches(pat, st, matches, n) ==
    IF n = 0 THEN st
    ELSE Only({ProcessMatches(pat, t, matches, n - 1)
               : t \in {ProcessMatch(pat, st, matches[n])}})

\* one pass of "for pattern, base_formatting in patterns"
Pass(pat, st) ==
    LET matches == FindAll(pat, st.plain, 0)
    IN  ProcessMatches(pat, st, matches, Len(matches))

RECURSIVE Passes(_, _)
Passes(k, st) ==
    IF k > Len(Patterns) THEN st
    ELSE Only({Passes(k + 1, t) : t \in {Pass(Patterns[k], st)}})

parse_markdown_text(text) ==
    LET st == Passes(1, [plain |-> text, segments |-> <<>>])
    IN  [plain |-> st.plain, segments |-> SortByStart(st.segments)]

(***************************************************************************)
(* Markdown inputs: up to MaxPieces fragments in a row.                    *)
(***************************************************************************)
MdPieces ==
    << <<"a">>, <<" ">>, <<"*", "*">>, <<"*">>,
       <<"*", "*", "b", "*", "*">>,
       <<"_", "e", "_">>,
       <<"~", "~", "c", "~", "~">>,
       <<"[", "u", "]", "d", "[", "/", "u", "]">>,
       <<"{", "c", "o", "l", "o", "r", ":", "r", "e", "d", "}">>,
       <<"{", "/", "c", "o", "l", "o", "r", "}">>,
       <<"{", "b", "g", ":", "#", "0", "f", "0", "}">>,
       <<"{", "/", "b", "g", "}">> >>

InitMd ==
    /\ mode = "markdown"
    /\ IdleHtml
    /\ \E n \in 0..MaxPieces :
          \E f \in [1..n -> 1..Len(MdPieces)] :
             markdown_text = Flatten([k \in 1..n |-> MdPieces[f[k]]])
    /\ md_result = NotReturned
    /\ IdleApply
    /\ IdleLater

ParseMarkdown ==
    /\ mode = "markdown"
    /\ ~md_result.returned
    /\ LET r == parse_markdown_text(markdown_text)
       IN  md_result' = Returned(r.plain, r.segments)
    /\ UNCHANGED <<mode, markdown_text, htmlVars, apVars, laterVars>>

NextMd == ParseMarkdown

SpecMd == InitMd /\ [][NextMd]_vars

\* C2: every run parse_markdown_text returns lies inside the final plain
\* text: 1 <= start and start + length - 1 <= len(plain_text).
C2_MdRunsInBounds ==
    md_result.returned =>
       \A k \in 1..Len(md_result.segments) :
          InBounds(md_result.segments[k], md_result.plain)

(***************************************************************************)
(* The appliers.  The target (a TextRange) is seen through the calls made  *)
(* on it: the assignment of Text, Characters(start, length), and the       *)
(* assignments to members of the range's Font.  A call of member m made    *)
(* while run i is handled raises when <<i, m>> is in the target's set R.   *)
(* A statement evaluates to the calls it made and whether an exception     *)
(* leaves it.                                                              *)
(***************************************************************************)
MsoTrue == -1

Members ==
    {"Characters", "Bold", "Italic", "Underline", "Strikethrough", "Strike",
     "Color", "Fill"}

Call(op, i, st, ln, v, ok, text) ==
    [op |-> op, run |-> i, start |-> st, length |-> ln, value |-> v,
     ok |-> ok, text |-> text]

Skip == [calls |-> <<>>, exc |-> FALSE]

Raise == [calls |-> <<>>, exc |-> TRUE]

\* text_range.Text = plain_text
SetText(plain) ==
    [calls |-> <<Call("Text", 0, 0, 0, 0, TRUE, plain)>>, exc |-> FALSE]

\* a call of member m for run i (seg) with value v on target R
TargetCall(m, i, seg, v, R) ==
    [calls |-> <<Call(m, i, seg.start, seg.length, v, <<i, m>> \notin R,
                      <<>>)>>,
     exc |-> <<i, m>> \in R]

\* a; b
Then(a, b) ==
    LET first == a
    IN  IF first.exc THEN first
        ELSE LET rest == b
             IN  [calls |-> first.calls \o rest.calls, exc |-> rest.exc]

\* the statements stmts[k..] in order, stopping at the first exception
RECURSIVE Chain(_, _)
Chain(stmts, k) ==
    IF k > Len(stmts) THEN Skip ELSE Then(stmts[k], Chain(stmts, k + 1))

\* try: a  except: pass
Catch(a) == [calls |-> a.calls, exc |-> FALSE]

HexDigits == <<"0", "1", "2", "3", "4", "5", "6", "7", "8", "9",
               "a", "b", "c", "d", "e", "f">>

HexTable ==
    [c \in {HexDigits[d] : d \in 1..Len(HexDigits)} |->
        (CHOOSE d \in 1..Len(HexDigits) : HexDigits[d] = c) - 1]

\* the value of a hexadecimal digit, or -1
HexDigitValue(c) ==
    IF LowerChar(c) \in DOMAIN HexTable THEN HexTable[LowerChar(c)] ELSE -1

RECURSIVE HexValue(_)
HexValue(digits) ==
    IF digits = <<>> THEN 0
    ELSE HexValue(SubSeq(digits, 1, Len(digits) - 1)) * 16
         + HexDigitValue(digits[Len(digits)])

\* int(s, 16) on strings of hexadecimal digits, signs and blanks: blanks
\* around are stripped and one sign may lead; ok is FALSE where int raises
\* ValueError
IntHex(s) ==
    LET t == Strip(s)
        signed == t # <<>> /\ t[1] \in {"+", "-"}
        digits == IF signed THEN Tail(t) ELSE t
    IN  IF digits = <<>> \/ \E k \in 1..Len(digits) : HexDigitValue(digits[k]) < 0
        THEN [ok |-> FALSE, value |-> 0]
        ELSE [ok |-> TRUE,
              value |-> IF signed /\ t[1] = "-" THEN 0 - HexValue(digits)
                        ELSE HexValue(digits)]

\* color_map
ColorNames ==
    {<<"r", "e", "d">>, <<"b", "l", "u", "e">>, <<"g", "r", "e", "e", "n">>,
     <<"y", "e", "l", "l", "o", "w">>, <<"o", "r", "a", "n", "g", "e">>,
     <<"p", "u", "r", "p", "l", "e">>, <<"b", "l", "a", "c", "k">>,
     <<"w", "h", "i", "t", "e">>}

ColorMap(name) ==
    CASE name = <<"r", "e", "d">> -> 255
      [] name = <<"b", "l", "u", "e">> -> 16711680
      [] name = <<"g", "r", "e", "e", "n">> -> 65280
      [] name = <<"y", "e", "l", "l", "o", "w">> -> 65535
      [] name = <<"o", "r", "a", "n", "g", "e">> -> 33023
      [] name = <<"p", "u", "r", "p", "l", "e">> -> 8388736
      [] name = <<"b", "l", "a", "c", "k">> -> 0
      [] name = <<"w", "h", "i", "t", "e">> -> 16777215

\* bgr_color = b + (g * 256) + (r * 65536)
PackForegroundSwapped(r, g, b) == r + (g * 256) + (b * 65536)

PackForeground(r, g, b) == b + (g * 256) + (r * 65536)

\* if formatting.get(flag): char_range.Font.<member> = -1
FlagStmtWritesOff(flag, member, i, seg, R) ==
    IF GetFlag(seg.formatting, flag)
    THEN TargetCall(member, i, seg, MsoTrue, R)
    ELSE TargetCall(member, i, seg, 0, R)

FlagStmt(flag, member, i, seg, R) ==
    IF GetFlag(seg.formatting, flag)
    THEN TargetCall(member, i, seg, MsoTrue, R)
    ELSE Skip

\* the strikethrough statement of apply_html_formatting: Strikethrough,
\* and Strike when that raises
HtmlStrikeStmt(i, seg, R) ==
    IF GetFlag(seg.formatting, "strikethrough")
    THEN LET first == TargetCall("Strikethrough", i, seg, MsoTrue, R)
         IN  IF first.exc
             THEN [calls |-> first.calls
                             \o TargetCall("Strike", i, seg, MsoTrue, R).calls,
                   exc |-> FALSE]
             ELSE first
    ELSE Skip

\* the strikethrough statement of apply_markdown_formatting: Strike only
MdStrikeStmt(i, seg, R) ==
    IF GetFlag(seg.formatting, "strikethrough")
    THEN Catch(TargetCall("Strike", i, seg, MsoTrue, R))
    ELSE Skip

\* the body of the try block of the color statement
ColorBody(i, seg, R) ==
    LET color_value == seg.formatting.color
    IN  IF StartsWithAt(color_value, 0, <<"#">>)
        THEN LET hex_color == SliceFrom(color_value, 1)
                 r == IntHex(Slice(hex_color, 0, 2))
                 g == IntHex(Slice(hex_color, 2, 4))
                 b == IntHex(Slice(hex_color, 4, 6))
             IN  IF Len(hex_color) = 6
                 THEN IF r.ok /\ g.ok /\ b.ok
                      THEN TargetCall("Color", i, seg,
                                      PackForeground(r.value, g.value, b.value),
                                      R)
                      ELSE Raise
                 ELSE Skip
        ELSE IF Lower(color_value) \in ColorNames
        THEN TargetCall("Color", i, seg, ColorMap(Lower(color_value)), R)
        ELSE Skip

ColorStmt(i, seg, R) ==
    IF GetText(seg.formatting, "color") THEN Catch(ColorBody(i, seg, R))
    ELSE Skip

\* the body of the try block of the background statement
BackgroundBody(i, seg, R) ==
    LET bg_value == seg.formatting.background_color
    IN  IF StartsWithAt(bg_value, 0, <<"#">>)
        THEN LET hex_color == SliceFrom(bg_value, 1)
                 rgb_color == IntHex(Slice(hex_color, 4, 6)
                                     \o Slice(hex_color, 2, 4)
                                     \o Slice(hex_color, 0, 2))
             IN  IF rgb_color.ok
                 THEN TargetCall("Fill", i, seg, rgb_color.value, R)
                 ELSE Raise
        ELSE Skip

BackgroundStmt(i, seg, R) ==
    IF GetText(seg.formatting, "background_color")
    THEN Catch(BackgroundBody(i, seg, R))
    ELSE Skip

\* start_pos > len(plain_text) or start_pos + length - 1 > len(plain_text)
ExceedsText(seg, plain) ==
    seg.start > Len(plain) \/ seg.start + seg.length - 1 > Len(plain)

\* the statements after the bounds test, common to both appliers but for
\* the strikethrough statement
RangeStmts(strike, i, seg, R) ==
    Chain(<<TargetCall("Characters", i, seg, 0, R),
            FlagStmt("bold", "Bold", i, seg, R),
            FlagStmt("italic", "Italic", i, seg, R),
            FlagStmt("underline", "Underline", i, seg, R),
            strike,
            ColorStmt(i, seg, R),
            BackgroundStmt(i, seg, R)>>, 1)

\* the try block of apply_html_formatting's loop body
HtmlTryBlock(i, seg, plain, R) ==
    IF ExceedsText(seg, plain) THEN Skip
    ELSE RangeStmts(HtmlStrikeStmt(i, seg, R), i, seg, R)

\* the try block of apply_markdown_formatting's loop body
MdTryBlock(i, seg, plain, R) ==
    RangeStmts(MdStrikeStmt(i, seg, R), i, seg, R)

\* the outer "except Exception" of a loop body
SegmentGuardMissing(a) == a

SegmentGuard(a) == Catch(a)

\* one iteration of the loop of applier kind
LoopBody(kind, i, seg, plain, R) ==
    IF seg.formatting.keys = {} THEN Skip
    ELSE SegmentGuard(IF kind = "html" THEN HtmlTryBlock(i, seg, plain, R)
                      ELSE MdTryBlock(i, seg, plain, R))

\* for segment in segments, from index i on
RECURSIVE Loop(_, _, _, _, _)
Loop(kind, i, segments, plain, R) ==
    IF i > Len(segments) THEN Skip
    ELSE Then(LoopBody(kind, i, segments[i], plain, R),
              Loop(kind, i + 1, segments, plain, R))

\* the statements of an applier: set the text, then the loop
TextAfterLoop(kind, plain, segments, R) ==
    Then(Loop(kind, 1, segments, plain, R), SetText(plain))

ApplierBody(kind, plain, segments, R) ==
    Then(SetText(plain), Loop(kind, 1, segments, plain, R))

apply_html_formatting(plain, segments, R) ==
    ApplierBody("html", plain, segments, R)

apply_markdown_formatting(plain, segments, R) ==
    ApplierBody("markdown", plain, segments, R)

(***************************************************************************)
(* Applier inputs.  The text has MaxText characters; a list holds up to    *)
(* MaxRuns runs, each one of RunSpans with one of RunFormats; the target   *)
(* raises on one of FaultSets, for one run or (index 0) for every run.     *)
(* A second family of inputs is a single run carrying one colour literal   *)
(* as color and as background_color, on a target that never raises.        *)
(***************************************************************************)
SampleText == SubSeq(LowerCase, 1, MaxText)

RunSpans == {<<2, MaxText - 1>>, <<MaxText + 1, 1>>, <<1, 1000>>}

Flags(d, ks) ==
    [d EXCEPT !.keys = @ \cup ks,
              !.bold = @ \/ "bold" \in ks,
              !.italic = @ \/ "italic" \in ks,
              !.underline = @ \/ "underline" \in ks,
              !.strikethrough = @ \/ "strikethrough" \in ks]

FmtAll ==
    DictSet(DictSet(Flags(NoFormatting,
                          {"bold", "italic", "underline", "strikethrough"}),
                    "color", <<"#", "f", "f", "8", "0", "0", "0">>),
            "background_color", <<"#", "0", "0", "8", "0", "f", "f">>)

FmtBold == Flags(NoFormatting, {"bold"})

\* bold present but False, italic, and a palette name in mixed case
FmtNamed ==
    DictSet(DictSet(Flags(NoFormatting, {"italic"}), "bold", FALSE),
            "color", <<"R", "e", "d">>)

\* literals that start with "#" and are not six hexadecimal digits
FmtMalformed ==
    DictSet(DictSet(Flags(NoFormatting, {"underline", "strikethrough"}),
                    "color", <<"#", "a", "b", "c">>),
            "background_color", <<"#", "1", "2">>)

RunFormats == {FmtAll, FmtNamed, FmtMalformed, NoFormatting}

Runs == {Segment(sp[1], sp[2], f) : sp \in RunSpans, f \in RunFormats}

FaultSets ==
    {{}, {"Characters"}, {"Bold"}, {"Italic"}, {"Underline"},
     {"Strikethrough"}, {"Strike"}, {"Strikethrough", "Strike"},
     {"Color"}, {"Fill"}}

\* the members ms raise for run i, or for every run when i = 0
FaultsOn(ms, i) ==
    {<<j, m>> : j \in (IF i = 0 THEN 1..MaxRuns ELSE {i}), m \in ms}

\* two-digit channel literals with their values
ByteTable ==
    {[hex |-> <<"0", "0">>, value |-> 0],
     [hex |-> <<"0", "a">>, value |-> 10],
     [hex |-> <<"7", "F">>, value |-> 127],
     [hex |-> <<"8", "0">>, value |-> 128],
     [hex |-> <<"A", "5">>, value |-> 165],
     [hex |-> <<"f", "f">>, value |-> 255]}

\* "#RRGGBB"
HexLiteral(r, g, b) == <<"#">> \o r.hex \o g.hex \o b.hex

ColorLiterals ==
    {HexLiteral(r, g, b) : r \in ByteTable, g \in ByteTable, b \in ByteTable}
    \cup ColorNames
    \cup {<<"#", "a", "b", "c">>, <<"#", "1", "2">>, <<"#">>,
          <<"#", "1", "2", "3", "4", "5", "g">>,
          <<"#", "1", "2", "3", "4", "5", "6", "7">>,
          <<"#", "+", "1", "+", "1", "+", "1">>,
          <<"B", "l", "u", "e">>,
          <<"c", "h", "a", "r", "t", "r", "e", "u", "s", "e">>}

\* a bold run with the literal c as color and as background_color
ColorFormat(c) ==
    DictSet(DictSet(FmtBold, "color", c), "background_color", c)

InitApply ==
    /\ mode = "apply"
    /\ IdleHtml
    /\ IdleMd
    /\ IdleLater
    /\ applier \in {"html", "markdown"}
    /\ ap_plain = SampleText
    /\ calls = <<>>
    /\ ap_state = "ready"
    /\ \/ /\ \E n \in 0..MaxRuns : ap_segments \in [1..n -> Runs]
          /\ \E ms \in FaultSets, i \in 0..MaxRuns : raises = FaultsOn(ms, i)
       \/ /\ \E c \in ColorLiterals :
                ap_segments = <<Segment(1, 1, ColorFormat(c))>>
          /\ raises = {}

Applied(r) ==
    /\ calls' = r.calls
    /\ ap_state' = (IF r.exc THEN "raised" ELSE "returned")
    /\ UNCHANGED <<mode, applier, ap_plain, ap_segments, raises,
                   htmlVars, mdVars, laterVars>>

ApplyHtml ==
    /\ mode = "apply"
    /\ ap_state = "ready"
    /\ applier = "html"
    /\ Applied(apply_html_formatting(ap_plain, ap_segments, raises))

ApplyMarkdown ==
    /\ mode = "apply"
    /\ ap_state = "ready"
    /\ applier = "markdown"
    /\ Applied(apply_markdown_formatting(ap_plain, ap_segments, raises))

NextApply == ApplyHtml \/ ApplyMarkdown

SpecApply == InitApply /\ [][NextApply]_vars

Done == ap_state \in {"returned", "raised"}

\* the calls made while run i was handled
CallsOf(i) == SelectSeq(calls, LAMBDA c : c.run = i)

\* the members assigned with success for run i
Written(i) == {c.op : c \in {calls[k] : k \in {k \in 1..Len(calls) :
                  calls[k].run = i /\ calls[k].ok /\ calls[k].op # "Characters"}}}

\* C3: both appliers assign plain_text to the target's text exactly once,
\* as their first call on the target, whatever the list of runs.
C3_TextSetOnceFirst ==
    Done =>
       /\ Len(calls) >= 1
       /\ calls[1].op = "Text"
       /\ calls[1].text = ap_plain
       /\ \A k \in 2..Len(calls) : calls[k].op # "Text"

\* C3 witness: an applier returned on a list whose runs are all out of
\* bounds, having made calls on the target.
C3_Witness ==
    /\ ap_state = "returned"
    /\ Len(ap_segments) = MaxRuns
    /\ \A k \in 1..Len(ap_segments) : ExceedsText(ap_segments[k], ap_plain)
    /\ \A k \in 1..Len(ap_segments) : ap_segments[k].formatting.keys # {}
    /\ Len(calls) >= 1

(***************************************************************************)
(* What a run asks for, read off its attributes alone.                     *)
(***************************************************************************)
\* "#" followed by exactly six hexadecimal digits
IsHex6(c) ==
    /\ Len(c) = 7
    /\ c[1] = "#"
    /\ \A k \in 2..7 : HexDigitValue(c[k]) >= 0

\* "#" followed by anything else
IsMalformedHex(c) == Len(c) >= 1 /\ c[1] = "#" /\ ~IsHex6(c)

\* the attribute a member of Font stands for
FieldOf(op) ==
    CASE op = "Bold" -> "bold"
      [] op = "Italic" -> "italic"
      [] op = "Underline" -> "underline"
      [] op \in {"Strikethrough", "Strike"} -> "strikethrough"
      [] op = "Color" -> "color"
      [] op = "Fill" -> "background_color"

\* the run asks for this attribute
Asks(seg, field) ==
    IF field \in {"bold", "italic", "underline", "strikethrough"}
    THEN GetFlag(seg.formatting, field)
    ELSE IF field = "color"
    THEN /\ "color" \in seg.formatting.keys
         /\ \/ IsHex6(seg.formatting.color)
            \/ Lower(seg.formatting.color) \in ColorNames
    ELSE /\ "background_color" \in seg.formatting.keys
         /\ IsHex6(seg.formatting.background_color)

\* the attribute was written with success for run i
Wrote(i, field) == \E m \in Written(i) : FieldOf(m) = field

\* some member standing for the attribute is free of faults for run i
CanWrite(i, field) ==
    \E m \in Members \ {"Characters"} :
       FieldOf(m) = field /\ <<i, m>> \notin raises

Fields ==
    {"bold", "italic", "underline", "strikethrough", "color",
     "background_color"}

\* the target raises on nothing while run i is handled
FaultFree(i) == \A m \in Members : <<i, m>> \notin raises

\* a call made for run i failed
Failed(i) == \E k \in 1..Len(calls) : calls[k].run = i /\ ~calls[k].ok

\* C4: for a run with start > len(plain_text) or start + length - 1 >
\* len(plain_text) both appliers make no call on the target for that run
\* (no Characters, no property), nothing is raised and the text is set.
C4_OutOfBoundsRunUntouched ==
    Done =>
       \A i \in 1..Len(ap_segments) :
          ExceedsText(ap_segments[i], ap_plain) =>
             /\ CallsOf(i) = <<>>
             /\ ap_state = "returned"
             /\ calls[1].op = "Text"

\* C5: when a call fails for one run, every other run that is in bounds
\* and meets no fault has each attribute it asks for written, and the
\* applier returns normally.
C5_OtherRunsStillApplied ==
    Done =>
       /\ ap_state = "returned"
       /\ \A i \in 1..Len(ap_segments) :
             (/\ ~ExceedsText(ap_segments[i], ap_plain)
              /\ FaultFree(i)) =>
                \A field \in Fields :
                   Asks(ap_segments[i], field) => Wrote(i, field)

\* C5 witness: the first run met a failing call and the second run, in
\* bounds, had all six attributes written.
C5_Witness ==
    /\ ap_state = "returned"
    /\ Len(ap_segments) = 2
    /\ Failed(1)
    /\ ap_segments[2].formatting = FmtAll
    /\ \A field \in Fields : Wrote(2, field)

\* C6: when one property setter fails for a run whose range was acquired,
\* every other attribute the run asks for is still written (each one that
\* some fault-free member can write).
C6_OtherPropertiesStillSet ==
    Done =>
       \A i \in 1..Len(ap_segments) :
          (\E k \in 1..Len(calls) :
              calls[k].run = i /\ calls[k].op = "Characters" /\ calls[k].ok) =>
             \A field \in Fields :
                (Asks(ap_segments[i], field) /\ CanWrite(i, field)
                 /\ (field = "strikethrough" =>
                        \A m \in {"Strikethrough", "Strike"} :
                           <<i, m>> \notin raises))
                   => Wrote(i, field)

\* the position in calls of the first strikethrough attempt for run i, or 0
FirstStrike(i) ==
    IF \E k \in 1..Len(calls) :
          calls[k].run = i /\ calls[k].op \in {"Strikethrough", "Strike"}
    THEN CHOOSE k \in 1..Len(calls) :
            /\ calls[k].run = i
            /\ calls[k].op \in {"Strikethrough", "Strike"}
            /\ \A j \in 1..(k - 1) :
                  ~(calls[j].run = i
                    /\ calls[j].op \in {"Strikethrough", "Strike"})
    ELSE 0

\* C7: for a run with strikethrough set, when the first strikethrough
\* property tried fails the applier tries the other property name next, and
\* whatever these two do, color and background_color of the run are still
\* written and the applier returns normally.
C7_StrikethroughFallback ==
    Done =>
       /\ ap_state = "returned"
       /\ \A i \in 1..Len(ap_segments) :
             FirstStrike(i) > 0 =>
                LET k == FirstStrike(i)
                IN  /\ ~calls[k].ok =>
                          /\ k < Len(calls)
                          /\ calls[k + 1].run = i
                          /\ calls[k + 1].op \in {"Strikethrough", "Strike"}
                          /\ calls[k + 1].op # calls[k].op
                    /\ \A field \in {"color", "background_color"} :
                          (Asks(ap_segments[i], field) /\ CanWrite(i, field))
                             => Wrote(i, field)

\* C8: every property write is made for a run that asks for that
\* attribute, on that run's range and with the "on" value; a field a run
\* lacks is never written for it and no "off" value is ever written.
C8_OnlyPresentFieldsWritten ==
    Done =>
       \A k \in 1..Len(calls) :
          calls[k].op \notin {"Text", "Characters"} =>
             /\ calls[k].run \in 1..Len(ap_segments)
             /\ LET seg == ap_segments[calls[k].run]
                IN  /\ calls[k].start = seg.start
                    /\ calls[k].length = seg.length
                    /\ FieldOf(calls[k].op) \in seg.formatting.keys
                    /\ FieldOf(calls[k].op)
                          \in {"bold", "italic", "underline", "strikethrough"}
                       => /\ GetFlag(seg.formatting, FieldOf(calls[k].op))
                          /\ calls[k].value = MsoTrue

\* C8 witness: a run in bounds with bold present but False, italic and a
\* colour had exactly Italic and Color written.
C8_Witness ==
    /\ ap_state = "returned"
    /\ \E i \in 1..Len(ap_segments) :
          /\ ap_segments[i].formatting = FmtNamed
          /\ Written(i) = {"Italic", "Color"}

\* C9: for a run whose color or background_color starts with "#" and is
\* not exactly six hexadecimal digits after it, no Color and no Fill value
\* is written for the malformed literal, nothing is raised and the other
\* attributes of the run are written.
C9_MalformedHexSkipped ==
    Done =>
       /\ ap_state = "returned"
       /\ \A i \in 1..Len(ap_segments) :
             LET f == ap_segments[i].formatting
             IN  /\ ("color" \in f.keys /\ IsMalformedHex(f.color)) =>
                       \A k \in 1..Len(calls) :
                          ~(calls[k].run = i /\ calls[k].op = "Color")
                 /\ ("background_color" \in f.keys
                     /\ IsMalformedHex(f.background_color)) =>
                       \A k \in 1..Len(calls) :
                          ~(calls[k].run = i /\ calls[k].op = "Fill")

\* the value the channel table gives a two-digit literal, or -1
TableValue(h) ==
    IF \E e \in ByteTable : e.hex = h
    THEN (CHOOSE e \in ByteTable : e.hex = h).value
    ELSE -1

\* c is "#RRGGBB" with the three channels taken from the channel table
IsTableLiteral(c) ==
    /\ Len(c) = 7
    /\ c[1] = "#"
    /\ TableValue(<<c[2], c[3]>>) >= 0
    /\ TableValue(<<c[4], c[5]>>) >= 0
    /\ TableValue(<<c[6], c[7]>>) >= 0

Red(c) == TableValue(<<c[2], c[3]>>)

Green(c) == TableValue(<<c[4], c[5]>>)

Blue(c) == TableValue(<<c[6], c[7]>>)

\* C10: for a color "#RRGGBB" with channels r, g, b the value written to
\* Font.Color.RGB is b + g*256 + r*65536, for a background_color the value
\* written to Font.Fill.ForeColor.RGB is r + g*256 + b*65536, both within
\* 0..2^24-1; on a run in bounds and a target that raises nothing both
\* writes are made.
C10_ChannelPacking ==
    Done =>
       \A i \in 1..Len(ap_segments) :
          LET f == ap_segments[i].formatting
              c == f.color
              d == f.background_color
          IN  /\ ("color" \in f.keys /\ IsTableLiteral(c)) =>
                    LET fg == Blue(c) + Green(c) * 256 + Red(c) * 65536
                    IN  /\ fg \in 0..(2^24 - 1)
                        /\ \A k \in 1..Len(calls) :
                              (calls[k].run = i /\ calls[k].op = "Color")
                                 => calls[k].value = fg
                        /\ (~ExceedsText(ap_segments[i], ap_plain)
                            /\ FaultFree(i)) => "Color" \in Written(i)
              /\ ("background_color" \in f.keys /\ IsTableLiteral(d)) =>
                    LET bg == Red(d) + Green(d) * 256 + Blue(d) * 65536
                    IN  /\ bg \in 0..(2^24 - 1)
                        /\ \A k \in 1..Len(calls) :
                              (calls[k].run = i /\ calls[k].op = "Fill")
                                 => calls[k].value = bg
                        /\ (~ExceedsText(ap_segments[i], ap_plain)
                            /\ FaultFree(i)) => "Fill" \in Written(i)

\* C10 witness: the literal "#0a80ff" was written as 688383 to the
\* foreground and as 16744458 to the background.
C10_Witness ==
    /\ ap_state = "returned"
    /\ Len(ap_segments) = 1
    /\ ap_segments[1].formatting.color
          = <<"#", "0", "a", "8", "0", "f", "f">>
    /\ \E k \in 1..Len(calls) :
          calls[k].op = "Color" /\ calls[k].ok /\ calls[k].value = 688383
    /\ \E k \in 1..Len(calls) :
          calls[k].op = "Fill" /\ calls[k].ok /\ calls[k].value = 16744458

(***************************************************************************)
(* Colour names in parsed runs.                                            *)
(***************************************************************************)
IsColorName(c) == c # <<>> /\ Head(c) # "#"

\* C11: a run returned by parse_html_text carries no colour name outside
\* the palette red, blue, green, yellow, orange, purple, black, white: a
\* span declaring such a name yields a run whose color is unset.
C11_UnknownColorUnset ==
    html_result.returned =>
       \A k \in 1..Len(html_result.segments) :
          LET f == html_result.segments[k].formatting
          IN  ("color" \in f.keys /\ IsColorName(f.color))
                 => Lower(f.color) \in ColorNames

\* C12: every run returned by parse_html_text and by parse_markdown_text
\* has length >= 1; markup with nothing between its opener and its closer
\* produces no run.
C12_RunsNonEmpty ==
    /\ html_result.returned =>
          \A k \in 1..Len(html_result.segments) :
             html_result.segments[k].length >= 1
    /\ md_result.returned =>
          \A k \in 1..Len(md_result.segments) :
             md_result.segments[k].length >= 1

(***************************************************************************)
(* process_markdown_lists.  The text is split at "\n"; each line is        *)
(* rewritten on its own and may receive one annotation.  An annotation is  *)
(* a record with the fields line, type, level, number and indent_level;    *)
(* the type tells which of them the Python dict holds.                     *)
(***************************************************************************)
\* the characters of the glyph literal the source file holds before
\* "{content}" (three characters, then a space)
BulletGlyph == <<"U+00E2", "U+20AC", "U+00A2">>

Digits == <<"0", "1", "2", "3", "4", "5", "6", "7", "8", "9">>

DigitTable ==
    [c \in {Digits[d] : d \in 1..Len(Digits)} |->
        (CHOOSE d \in 1..Len(Digits) : Digits[d] = c) - 1]

\* str.isdigit() of one character, \d
IsDigit(c) == c \in DOMAIN DigitTable

\* int(s) for a string of digits
RECURSIVE IntDec(_)
IntDec(ds) ==
    IF ds = <<>> THEN 0
    ELSE IntDec(SubSeq(ds, 1, Len(ds) - 1)) * 10 + DigitTable[ds[Len(ds)]]

\* s.lstrip(chars)
RECURSIVE LStripOf(_, _)
LStripOf(s, chars) ==
    IF s # <<>> /\ Head(s) \in chars THEN LStripOf(Tail(s), chars) ELSE s

\* sep.join(lines)
RECURSIVE Join(_, _)
Join(lines, sep) ==
    IF lines = <<>> THEN <<>>
    ELSE IF Len(lines) = 1 THEN lines[1]
    ELSE lines[1] \o <<sep>> \o Join(Tail(lines), sep)

\* the length of the match of \d+ at the start of s
RECURSIVE LeadingDigits(_)
LeadingDigits(s) ==
    IF s # <<>> /\ IsDigit(Head(s)) THEN 1 + LeadingDigits(Tail(s)) ELSE 0

\* the match of "." (any character but a newline), greedy
RECURSIVE UpToNewline(_)
UpToNewline(s) ==
    IF s = <<>> \/ Head(s) = "\n" THEN <<>>
    ELSE <<Head(s)>> \o UpToNewline(Tail(s))

\* re.match(r'^\d+\.\s', stripped)
NumberedPrefix(stripped) ==
    LET n == LeadingDigits(stripped)
    IN  /\ n >= 1
        /\ Len(stripped) >= n + 2
        /\ stripped[n + 1] = "."
        /\ stripped[n + 2] \in Whitespace

\* re.match(r'^(\d+)\.\s(.+)', stripped): whether it matches, and its groups
NumberedMatch(stripped) ==
    LET n == LeadingDigits(stripped)
        rest == UpToNewline(SliceFrom(stripped, n + 2))
    IN  [matched |-> NumberedPrefix(stripped) /\ rest # <<>>,
         number |-> Slice(stripped, 0, n),
         content |-> rest]

\* (len(line) - len(line.lstrip())) // 2
IndentLevel(line) == (Len(line) - Len(LStrip(line))) \div 2

BulletInfo(i, line) ==
    [line |-> i, type |-> "bullet", level |-> 0, number |-> 0,
     indent_level |-> IndentLevel(line)]

NumberedInfo(i, line, number) ==
    [line |-> i, type |-> "numbered", level |-> 0, number |-> IntDec(number),
     indent_level |-> IndentLevel(line)]

HeaderInfoOneBased(i, level) ==
    [line |-> i + 1, type |-> "header", level |-> level, number |-> 0,
     indent_level |-> 0]

HeaderInfo(i, level) ==
    [line |-> i, type |-> "header", level |-> level, number |-> 0,
     indent_level |-> 0]

\* len(stripped) - len(stripped.lstrip('#'))
MarkdownHeaderLevel(stripped) == Len(stripped) - Len(LStripOf(stripped, {"#"}))

\* the body of "for i, line in enumerate(lines)": the lines appended to
\* processed_lines and the annotations appended to list_info
MarkdownListLine(i, line) ==
    LET stripped == Strip(line)
    IN  IF \/ StartsWithAt(stripped, 0, <<"-", " ">>)
           \/ StartsWithAt(stripped, 0, <<"*", " ">>)
        THEN [lines |-> <<BulletGlyph \o <<" ">>
                            \o Strip(SliceFrom(stripped, 2))>>,
              info |-> <<BulletInfo(i, line)>>]
        ELSE IF NumberedPrefix(stripped)
        THEN LET m == NumberedMatch(stripped)
             IN  IF m.matched
                 THEN [lines |-> <<m.number \o <<".", " ">> \o m.content>>,
                       info |-> <<NumberedInfo(i, line, m.number)>>]
                 ELSE [lines |-> <<>>, info |-> <<>>]
        ELSE IF StartsWithAt(stripped, 0, <<"#">>)
        THEN [lines |-> <<Strip(LStripOf(stripped, {"#", " "}))>>,
              info |-> <<HeaderInfo(i, MarkdownHeaderLevel(stripped))>>]
        ELSE [lines |-> <<line>>, info |-> <<>>]

\* the loop over lines[k..], k 1-based (the line index i is k - 1)
RECURSIVE MarkdownListLines(_, _)
MarkdownListLines(lines, k) ==
    IF k > Len(lines) THEN [lines |-> <<>>, info |-> <<>>]
    ELSE LET one == MarkdownListLine(k - 1, lines[k])
             rest == MarkdownListLines(lines, k + 1)
         IN  [lines |-> one.lines \o rest.lines, info |-> one.info \o rest.info]

process_markdown_lists(text) ==
    LET r == MarkdownListLines(Split(text, "\n"), 1)
    IN  [text |-> Join(r.lines, "\n"), list_info |-> r.info]

(***************************************************************************)
(* Inputs of process_markdown_lists: up to MaxLines lines in a row.        *)
(***************************************************************************)
MaxLines == 3       \* lines of a text handed to a list processor

MarkdownLines ==
    << <<>>,
       <<"a", "b">>,
       <<"#", " ", "T">>,
       <<"#", "#", "#", "#", "#", "#", "#", " ", "x">>,
       <<"#", "#", " ", "#", " ", "T">>,
       <<"#">>,
       <<" ", " ", "-", " ", "i", "t">>,
       <<"*", " ", "i", "t">>,
       <<"1", ".", " ", "a">>,
       <<"1", "2", ".", "\t", "b", " ", "c">>,
       <<"1", ".">>,
       <<"-", "i", "t">>,
       <<" ", "#", "t", " ">>,
       <<"#", "\t", "#", " ", "x">>,
       <<"-", " ">> >>

InitMdLists ==
    /\ mode = "mdlists"
    /\ IdleHtml
    /\ IdleMd
    /\ IdleApply
    /\ \E n \in 1..MaxLines :
          \E f \in [1..n -> 1..Len(MarkdownLines)] :
             list_text = Join([k \in 1..n |-> MarkdownLines[f[k]]], "\n")
    /\ list_result = NoLists
    /\ IdleWrite
    /\ IdleRound
    /\ IdleContext
    /\ IdleModify
    /\ IdleScan
    /\ IdleNest

ListsReturned(r) ==
    [returned |-> TRUE, text |-> r.text, list_info |-> r.list_info]

ProcessMarkdownLists ==
    /\ mode = "mdlists"
    /\ ~list_result.returned
    /\ list_result' = ListsReturned(process_markdown_lists(list_text))
    /\ UNCHANGED <<mode, list_text, htmlVars, mdVars, apVars, wpVars,
                   rtVars, ctxVars, mtVars, scVars, nestVars>>

NextMdLists == ProcessMarkdownLists

SpecMdLists == InitMdLists /\ [][NextMdLists]_vars

\* the annotations recorded for the zero-based line i
InfoOf(info, i) == {k \in 1..Len(info) : info[k].line = i}

\* a line that is a header: after stripping it starts with "#", and is
\* neither a bullet nor a numbered item
IsHeaderLine(line) ==
    LET s == Strip(line)
    IN  s # <<>> /\ s[1] = "#"

\* out is the header text of line: what follows the leading run of "#"
\* characters and spaces, without surrounding blanks
IsHeaderText(line, out) ==
    LET s == Strip(line)
    IN  \E j \in 1..Len(s) :
           /\ \A k \in 1..j : s[k] \in {"#", " "}
           /\ j < Len(s) => s[j + 1] \notin {"#", " "}
           /\ out = Strip(SliceFrom(s, j))

\* C13: process_markdown_lists returns as many lines as its input has;
\* each annotation's line is the zero-based index of the output line made
\* from the annotated input line; the output line of a header line is the
\* header text without the leading "#" characters and spaces; a line
\* without annotation is passed through unchanged.
C13_MarkdownLineMapping ==
    (mode = "mdlists" /\ list_result.returned) =>
       LET inl == Split(list_text, "\n")
           outl == Split(list_result.text, "\n")
           info == list_result.list_info
       IN  /\ Len(outl) = Len(inl)
           /\ \A k \in 1..Len(info) : info[k].line \in 0..(Len(inl) - 1)
           /\ \A i \in 1..Len(inl) :
                 /\ Cardinality(InfoOf(info, i - 1)) <= 1
                 /\ IsHeaderLine(inl[i]) <=>
                       \E k \in InfoOf(info, i - 1) : info[k].type = "header"
                 /\ IsHeaderLine(inl[i]) => IsHeaderText(inl[i], outl[i])
                 /\ InfoOf(info, i - 1) = {} => outl[i] = inl[i]

\* C13 witness: a header on the second line of the input was annotated
\* with line 1, after a first line passed through unchanged.
C13_Witness ==
    /\ mode = "mdlists"
    /\ list_result.returned
    /\ Len(list_result.list_info) = 1
    /\ list_result.list_info[1].type = "header"
    /\ list_result.list_info[1].line = 1
    /\ Split(list_text, "\n")[1] = <<"a", "b">>
    /\ Split(list_result.text, "\n")[2] = <<"T">>

\* C14: every header annotation a list processor returns has a level
\* between 1 and 6, also for a Markdown line that starts with seven or
\* more "#" characters.
C14_HeaderLevelInRange ==
    list_result.returned =>
       \A k \in 1..Len(list_result.list_info) :
          list_result.list_info[k].type = "header"
             => list_result.list_info[k].level \in 1..6

(***************************************************************************)
(* process_html_lists.  Its regular expressions all have the shape         *)
(*   an opener literal, any characters but ">", ">", lazy content, a       *)
(*   closer literal                                                        *)
(* where the header pattern admits the openers "<h1" .. "<h6" and the      *)
(* closers "</h1>" .. "</h6>".  A pattern is matched ignoring case or      *)
(* not, and with "." matching a newline (re.DOTALL) or not.                *)
(***************************************************************************)
TagPattern(opens, closers, ignorecase, dotall) ==
    [opens |-> opens, closers |-> closers, ignorecase |-> ignorecase,
     dotall |-> dotall]

ElementPattern(name, ignorecase, dotall) ==
    TagPattern({<<"<">> \o name}, {<<"<", "/">> \o name \o <<">">>},
               ignorecase, dotall)

HeaderPattern(ignorecase, dotall) ==
    TagPattern({<<"<", "h", d>> : d \in {"1", "2", "3", "4", "5", "6"}},
               {<<"<", "/", "h", d, ">">> : d \in {"1", "2", "3", "4", "5", "6"}},
               ignorecase, dotall)

\* 0-based offset of the first occurrence at or after from of any of the
\* literals, or -1
FindAny(s, lits, from) ==
    LET hits == {Find(s, l, from) : l \in lits} \ {-1}
    IN  IF hits = {} THEN -1 ELSE CHOOSE j \in hits : \A h \in hits : j <= h

\* the match of pat that starts exactly at 0-based offset i of s, if any;
\* t is s folded to lower case when the pattern ignores case, else s.
\* g1 is the last character of the opener (the digit of a header), g2 the
\* content.
TagMatchAt(pat, s, t, i) ==
    LET opens == {o \in pat.opens : StartsWithAt(t, i, o)}
    IN  IF opens = {} THEN NoMatch
        ELSE LET o == CHOOSE o \in opens : TRUE
                 k == Find(s, <<">">>, i + Len(o))
                 j == IF k < 0 THEN -1 ELSE FindAny(t, pat.closers, k + 1)
                 closer == CHOOSE c \in pat.closers : TRUE
             IN  IF k < 0 \/ j < 0 THEN NoMatch
                 ELSE IF ~pat.dotall /\ Contains(Slice(s, k + 1, j), <<"\n">>)
                 THEN NoMatch
                 ELSE Match(i, j + Len(closer), <<s[i + Len(o)]>>,
                            Slice(s, k + 1, j))

\* the leftmost match starting at or after offset pos, if any
TagSearch(pat, s, t, pos) ==
    Only({IF starts = {} THEN NoMatch
          ELSE TagMatchAt(pat, s, t,
                          CHOOSE i \in starts : \A j \in starts : i <= j)
          : starts \in {{i \in pos..(Len(s) - 1) :
                           TagMatchAt(pat, s, t, i).ok}}})

RECURSIVE TagFindFrom(_, _, _, _)
TagFindFrom(pat, s, t, pos) ==
    Only({IF m.ok THEN <<m>> \o TagFindFrom(pat, s, t, m.end) ELSE <<>>
          : m \in {TagSearch(pat, s, t, pos)}})

\* list(re.finditer(pattern, s, flags)), s given as a value
TagFindAll(pat, s) ==
    Only({TagFindFrom(pat, s, t, 0)
          : t \in {IF pat.ignorecase THEN Lower(s) ELSE s}})

\* re.sub: the matches ms[1..n] of s replaced by repl[1..n]
RECURSIVE SubMatches(_, _, _, _)
SubMatches(s, ms, repl, n) ==
    IF n = 0 THEN s
    ELSE SubMatches(Replace(s, ms[n], repl[n]), ms, repl, n - 1)

\* str(i) for i >= 0
RECURSIVE DecStr(_)
DecStr(i) ==
    IF i < 10 THEN <<Digits[i + 1]>>
    ELSE DecStr(i \div 10) \o <<Digits[(i % 10) + 1]>>

LiPattern == ElementPattern(<<"l", "i">>, FALSE, TRUE)

\* the lines process_ul builds from items[k..]
RECURSIVE UlItems(_, _)
UlItems(items, k) ==
    IF k > Len(items) THEN <<>>
    ELSE BulletGlyph \o <<" ">> \o Strip(items[k].g2) \o <<"\n">>
         \o UlItems(items, k + 1)

process_ul(m) ==
    Only({RStrip(UlItems(items, 1))
          : items \in {TagFindAll(LiPattern, m.g2)}})

\* the lines process_ol builds from items[k..]
RECURSIVE OlItems(_, _)
OlItems(items, k) ==
    IF k > Len(items) THEN <<>>
    ELSE DecStr(k) \o <<".", " ">> \o Strip(items[k].g2) \o <<"\n">>
         \o OlItems(items, k + 1)

process_ol(m) ==
    Only({RStrip(OlItems(items, 1))
          : items \in {TagFindAll(LiPattern, m.g2)}})

\* re.sub(ul_pattern, process_ul, text)
SubUl(text) ==
    Only({SubMatches(text, uls, [k \in 1..Len(uls) |-> process_ul(uls[k])],
                     Len(uls))
          : uls \in {TagFindAll(ElementPattern(<<"u", "l">>, TRUE, TRUE),
                                text)}})

\* re.sub(ol_pattern, process_ol, text)
SubOl(text) ==
    Only({SubMatches(text, ols, [k \in 1..Len(ols) |-> process_ol(ols[k])],
                     Len(ols))
          : ols \in {TagFindAll(ElementPattern(<<"o", "l">>, TRUE, TRUE),
                                text)}})

\* the two list substitutions, text given as a value
AfterLists(text) == Only({SubOl(t1) : t1 \in {SubUl(text)}})

\* header_matches: re.finditer(header_pattern, text, re.IGNORECASE)
HeaderMatches(text) == TagFindAll(HeaderPattern(TRUE, FALSE), text)

\* the header elements re.sub(header_pattern, r'\2', ...) replaces
HeadersReplaced(text) == TagFindAll(HeaderPattern(TRUE, TRUE), text)

\* re.sub(pattern, group, text, flags=re.DOTALL | re.IGNORECASE): every
\* match replaced by its content
Unwrap(pat, text) ==
    Only({SubMatches(text, ms, [k \in 1..Len(ms) |-> ms[k].g2], Len(ms))
          : ms \in {TagFindAll(pat, text)}})

BlockTags ==
    << <<"p">>, <<"d", "i", "v">>, <<"s", "e", "c", "t", "i", "o", "n">>,
       <<"a", "r", "t", "i", "c", "l", "e">>, <<"m", "a", "i", "n">>,
       <<"a", "s", "i", "d", "e">>, <<"n", "a", "v">>,
       <<"h", "e", "a", "d", "e", "r">>, <<"f", "o", "o", "t", "e", "r">> >>

RECURSIVE UnwrapBlocks(_, _)
UnwrapBlocks(text, k) ==
    IF k > Len(BlockTags) THEN text
    ELSE Only({UnwrapBlocks(t, k + 1)
               : t \in {Unwrap(ElementPattern(BlockTags[k], TRUE, TRUE),
                               text)}})

\* re.sub(r'[ \t]+', ' ', text)
RECURSIVE CollapseBlanks(_)
CollapseBlanks(s) ==
    IF s = <<>> THEN <<>>
    ELSE IF Head(s) \in {" ", "\t"}
    THEN <<" ">> \o CollapseBlanks(LStripOf(s, {" ", "\t"}))
    ELSE <<Head(s)>> \o CollapseBlanks(Tail(s))

\* re.sub(r'\n\s*\n', '\n', text): a newline, the white space after it and
\* the last newline of that white space become one newline
RECURSIVE RemoveEmptyLines(_)
RemoveEmptyLines(s) ==
    IF s = <<>> THEN <<>>
    ELSE IF Head(s) # "\n" THEN <<Head(s)>> \o RemoveEmptyLines(Tail(s))
    ELSE LET rest == Tail(s)
             run == Len(rest) - Len(LStrip(rest))
             ends == {j \in 1..run : rest[j] = "\n"}
         IN  IF ends = {} THEN <<"\n">> \o RemoveEmptyLines(rest)
             ELSE LET last == CHOOSE j \in ends : \A e \in ends : e <= j
                  IN  <<"\n">> \o RemoveEmptyLines(SubSeq(rest, last + 1,
                                                          Len(rest)))

HtmlHeaderInfo(i, level) ==
    [line |-> i, type |-> "header", level |-> level, number |-> 0,
     indent_level |-> 0]

\* "for line_idx, line in enumerate(lines): if content.strip() in
\* line.strip(): ... break": the annotation of one header match, if any
HeaderAnnotation(lines, m) ==
    LET content == Strip(Strip(m.g2))
        hits == {i \in 1..Len(lines) : Contains(Strip(lines[i]), content)}
    IN  IF hits = {} THEN <<>>
        ELSE <<HtmlHeaderInfo((CHOOSE i \in hits : \A h \in hits : i <= h) - 1,
                              IntDec(m.g1))>>

RECURSIVE HeaderAnnotations(_, _, _)
HeaderAnnotations(lines, ms, k) ==
    IF k > Len(ms) THEN <<>>
    ELSE HeaderAnnotation(lines, ms[k]) \o HeaderAnnotations(lines, ms, k + 1)

\* everything after the list substitutions, listed given as a value
AfterHeaders(listed) ==
    Only({Only({Only({[text |-> out,
                       list_info |->
                          HeaderAnnotations(Split(out, "\n"),
                                            header_matches, 1)]
                      : out \in {Strip(RemoveEmptyLines(CollapseBlanks(
                                          UnwrapBlocks(replaced, 1))))}})
                : replaced \in {Unwrap(HeaderPattern(TRUE, TRUE), listed)}})
          : header_matches \in {HeaderMatches(listed)}})

process_html_lists(text) ==
    Only({Only({AfterHeaders(listed) : listed \in {AfterLists(t)}})
          : t \in {text}})

(***************************************************************************)
(* Inputs of process_html_lists: up to MaxLines fragments in a row.        *)
(***************************************************************************)
HtmlFragments ==
    << <<"<", "h", "1", ">", "T", "<", "/", "h", "1", ">">>,
       <<"<", "H", "2", ">", "T", "<", "/", "h", "2", ">">>,
       <<"<", "h", "3", ">", "a", " ", " ", "b", "<", "/", "h", "3", ">">>,
       <<"<", "h", "1", ">", "a", "\n", "b", "<", "/", "h", "1", ">">>,
       <<"<", "h", "6", ">", "<", "/", "h", "6", ">">>,
       <<"T">>,
       <<"\n">>,
       <<" ">>,
       <<"<", "u", "l", ">", "<", "l", "i", ">", "x", "<", "/", "l", "i", ">",
         "<", "/", "u", "l", ">">>,
       <<"<", "o", "l", ">", "<", "l", "i", ">", "x", "<", "/", "l", "i", ">",
         "<", "l", "i", ">", " ", "T", "<", "/", "l", "i", ">",
         "<", "/", "o", "l", ">">>,
       <<"<", "p", ">">>,
       <<"<", "/", "p", ">">> >>

InitHtmlLists ==
    /\ mode = "htmllists"
    /\ IdleHtml
    /\ IdleMd
    /\ IdleApply
    /\ \E n \in 0..MaxLines :
          \E f \in [1..n -> 1..Len(HtmlFragments)] :
             list_text = Flatten([k \in 1..n |-> HtmlFragments[f[k]]])
    /\ list_result = NoLists
    /\ IdleWrite
    /\ IdleRound
    /\ IdleContext
    /\ IdleModify
    /\ IdleScan
    /\ IdleNest

ProcessHtmlLists ==
    /\ mode = "htmllists"
    /\ ~list_result.returned
    /\ list_result' = ListsReturned(process_html_lists(list_text))
    /\ UNCHANGED <<mode, list_text, htmlVars, mdVars, apVars, wpVars,
                   rtVars, ctxVars, mtVars, scVars, nestVars>>

NextHtmlLists == ProcessHtmlLists

SpecHtmlLists == InitHtmlLists /\ [][NextHtmlLists]_vars

\* C15: process_html_lists records exactly one header annotation for every
\* header element it replaces by its content, in order, carrying that
\* header's level and the index of an output line that holds the header's
\* content, and no output line receives more than one annotation.
C15_OneAnnotationPerHeader ==
    (mode = "htmllists" /\ list_result.returned) =>
       LET hs == HeadersReplaced(AfterLists(list_text))
           info == list_result.list_info
           outl == Split(list_result.text, "\n")
       IN  /\ Len(info) = Len(hs)
           /\ \A k \in 1..Len(info) :
                 /\ info[k].type = "header"
                 /\ info[k].level = IntDec(hs[k].g1)
                 /\ info[k].line \in 0..(Len(outl) - 1)
           /\ \A k1, k2 \in 1..Len(info) :
                 k1 # k2 => info[k1].line # info[k2].line

(***************************************************************************)
(* parse_html_text as a function of the markup.  HTMLParser.feed cuts the  *)
(* markup into opening tags, closing tags and text and calls the handlers  *)
(* in that order; the handlers are the ones modelled above, here applied   *)
(* to a record of the parser's fields.  The markup handed in has every     *)
(* "<" open a tag "<name ...>" or "</name>" that is closed by ">", and     *)
(* attribute values in double quotes.                                      *)
(***************************************************************************)
\* a string of characters as one atom (tag and attribute names)
RECURSIVE Atom(_)
Atom(s) == IF s = <<>> THEN "" ELSE Head(s) \o Atom(Tail(s))

IsLetter(c) ==
    c \in DOMAIN LowerTable \/ c \in {LowerCase[i] : i \in 1..Len(LowerCase)}

NewParser ==
    [plain_text |-> <<>>, format_segments |-> <<>>, tag_stack |-> <<>>,
     current_position |-> 0]

StartTag(p, tag, attrs) ==
    [p EXCEPT !.tag_stack =
                 Append(@, StackEntry(tag, p.current_position, attrs))]

EndTag(p, tag) ==
    LET i == MatchingEntry(p.tag_stack, tag)
    IN  IF i = 0 THEN p
        ELSE [p EXCEPT !.tag_stack = RemoveAt(@, i),
                       !.format_segments =
                          SegmentsAfterClose(@, p.current_position,
                                             p.tag_stack[i])]

Data(p, data) ==
    [p EXCEPT !.plain_text = @ \o data,
              !.current_position = @ + Len(data)]

\* html.unescape for the references "&amp;", "&lt;" and "&gt;"
RECURSIVE Unescape(_)
Unescape(s) ==
    IF s = <<>> THEN <<>>
    ELSE IF StartsWithAt(s, 0, <<"&", "a", "m", "p", ";">>)
    THEN <<"&">> \o Unescape(SliceFrom(s, 5))
    ELSE IF StartsWithAt(s, 0, <<"&", "l", "t", ";">>)
    THEN <<"<">> \o Unescape(SliceFrom(s, 4))
    ELSE IF StartsWithAt(s, 0, <<"&", "g", "t", ";">>)
    THEN <<">">> \o Unescape(SliceFrom(s, 4))
    ELSE <<Head(s)>> \o Unescape(Tail(s))

\* the name of an opening tag: the characters before the first blank or "/"
RECURSIVE TagNameChars(_)
TagNameChars(inner) ==
    IF inner = <<>> \/ Head(inner) \in Whitespace \/ Head(inner) = "/"
    THEN <<>>
    ELSE <<Head(inner)>> \o TagNameChars(Tail(inner))

\* the attributes name="value" of an opening tag, as pairs <<name, value>>
RECURSIVE Attributes(_)
Attributes(s) ==
    LET t == LStrip(s)
        e == Find(t, <<"=">>, 0)
        q == Find(t, <<"\"">>, e + 2)
    IN  IF t = <<>> \/ e < 0 \/ q < 0 \/ ~StartsWithAt(t, e + 1, <<"\"">>)
        THEN <<>>
        ELSE << <<Atom(Lower(Strip(Slice(t, 0, e)))), Slice(t, e + 2, q)>> >>
             \o Attributes(SliceFrom(t, q + 1))

\* whether a tag starts at the head of s
TagAhead(s) ==
    /\ Len(s) >= 2
    /\ s[1] = "<"
    /\ IsLetter(s[2]) \/ (s[2] = "/" /\ Len(s) >= 3 /\ IsLetter(s[3]))
    /\ Contains(s, <<">">>)

\* the handler call for the tag "<inner>"
TagEvent(p, inner) ==
    IF Head(inner) = "/"
    THEN EndTag(p, Atom(Lower(Strip(Tail(inner)))))
    ELSE Only({StartTag(p, Atom(Lower(name)),
                        Attributes(SliceFrom(inner, Len(name))))
               : name \in {TagNameChars(inner)}})

\* the parser after the first tag or text of s, and what is left of s
FeedOne(p, s) ==
    IF TagAhead(s)
    THEN Only({[parser |-> TagEvent(p, Slice(s, 1, k)),
                rest |-> SliceFrom(s, k + 1)]
               : k \in {Find(s, <<">">>, 0)}})
    ELSE Only({Only({[parser |-> Data(p, Unescape(Slice(s, 0, n))),
                      rest |-> SliceFrom(s, n)]
                     : n \in {IF k < 0 THEN Len(s) ELSE k}})
               : k \in {Find(s, <<"<">>, 1)}})

\* HTMLParser.feed followed by close
RECURSIVE Feed(_, _)
Feed(p, s) ==
    IF s = <<>> THEN p
    ELSE Only({Feed(r.parser, r.rest) : r \in {FeedOne(p, s)}})

parse_html_text(html_text) ==
    Only({[plain |-> p.plain_text,
           segments |-> SortByStart(p.format_segments)]
          : p \in {Feed(NewParser, html_text)}})

(***************************************************************************)
(* The write path of add_textbox and of _update_textbox_internal with      *)
(* text_operation "replace": process_html_lists, parse_html_text,          *)
(* apply_html_formatting, then the header pass over list_info.  The calls  *)
(* of the header pass are recorded as HeaderRange (Characters),            *)
(* HeaderSize (Font.Size) and HeaderBold (Font.Bold), with the index of    *)
(* the annotation as run.                                                  *)
(***************************************************************************)
DefaultFontSize == 14

\* font_size or 14
BaseFontSize(font_size) == IF font_size = 0 THEN DefaultFontSize ELSE font_size

HeaderCall(op, k, st, ln, v) ==
    [calls |-> <<Call(op, k, st, ln, v, TRUE, <<>>)>>, exc |-> FALSE]

\* sum(len(lines[i]) + 1 for i in range(n))
RECURSIVE SumLines(_, _)
SumLines(lines, n) ==
    IF n = 0 THEN 0 ELSE SumLines(lines, n - 1) + Len(lines[n]) + 1

\* the if/elif chain on level
HeaderLevelStmts(k, level, st, ln, font_size) ==
    IF level = 1
    THEN Then(HeaderCall("HeaderSize", k, st, ln, BaseFontSize(font_size) + 8),
              HeaderCall("HeaderBold", k, st, ln, MsoTrue))
    ELSE IF level = 2
    THEN Then(HeaderCall("HeaderSize", k, st, ln, BaseFontSize(font_size) + 4),
              HeaderCall("HeaderBold", k, st, ln, MsoTrue))
    ELSE IF level = 3
    THEN Then(HeaderCall("HeaderSize", k, st, ln, BaseFontSize(font_size) + 2),
              HeaderCall("HeaderBold", k, st, ln, MsoTrue))
    ELSE Skip

\* the body of "for info in list_info" for the k-th annotation
HeaderStmt(k, info, plain, font_size) ==
    IF info.type # "header" THEN Skip
    ELSE Catch(
           LET lines == Split(plain, "\n")
           IN  IF info.line < Len(lines)
               THEN LET line_start == SumLines(lines, info.line) + 1
                        line_length == Len(lines[info.line + 1])
                    IN  IF line_length > 0
                        THEN Then(HeaderCall("HeaderRange", k, line_start,
                                             line_length, 0),
                                  HeaderLevelStmts(k, info.level, line_start,
                                                   line_length, font_size))
                        ELSE Skip
               ELSE Skip)

RECURSIVE HeaderPass(_, _, _, _)
HeaderPass(k, list_info, plain, font_size) ==
    IF k > Len(list_info) THEN Skip
    ELSE Then(HeaderStmt(k, list_info[k], plain, font_size),
              HeaderPass(k + 1, list_info, plain, font_size))

WritePath(html_text, font_size) ==
    Only({Only({Only({Only({Then(applied, headers)
                            : headers \in {HeaderPass(1, processed.list_info,
                                                      parsed.plain,
                                                      font_size)}})
                      : applied \in {apply_html_formatting(
                                        parsed.plain, parsed.segments, {})}})
                : parsed \in {parse_html_text(processed.text)}})
          : processed \in {process_html_lists(html_text)}})

\* text_range.ParagraphFormat.Alignment = alignment_map["left"]
AlignLeft ==
    [calls |-> <<Call("Alignment", 0, 0, 0, 1, TRUE, <<>>)>>, exc |-> FALSE]

WriteFragments ==
    << <<"<", "h", "1", ">", "T", "<", "/", "h", "1", ">">>,
       <<"<", "h", "2", ">", "<", "b", ">", "a", "b", "<", "/", "b", ">",
         "<", "/", "h", "2", ">">>,
       <<"<", "h", "3", ">", "c", "<", "/", "h", "3", ">">>,
       <<"<", "h", "4", ">", "d", "<", "/", "h", "4", ">">>,
       <<"<", "h", "6", ">", "<", "/", "h", "6", ">">>,
       <<"<", "i", ">", "x", "<", "/", "i", ">">>,
       <<"y">>,
       <<"\n">> >>

FontSizes == {0, 20}

InitWrite ==
    /\ mode = "write"
    /\ IdleHtml
    /\ IdleMd
    /\ IdleApply
    /\ IdleLists
    /\ IdleRound
    /\ IdleContext
    /\ IdleModify
    /\ IdleScan
    /\ IdleNest
    /\ wp_tool \in {"add_textbox", "replace_textbox_content"}
    /\ \E n \in 0..MaxLines :
          \E f \in [1..n -> 1..Len(WriteFragments)] :
             wp_html = Flatten([k \in 1..n |-> WriteFragments[f[k]]])
    /\ wp_font_size \in FontSizes
    /\ wp_calls = <<>>
    /\ wp_state = "ready"

Written_(r) ==
    /\ wp_calls' = r.calls
    /\ wp_state' = "returned"
    /\ UNCHANGED <<mode, wp_tool, wp_html, wp_font_size, htmlVars, mdVars,
                   apVars, listVars,
                   rtVars, ctxVars, mtVars, scVars, nestVars>>

\* add_textbox with the default text_align and no font_name
AddTextbox ==
    /\ mode = "write"
    /\ wp_state = "ready"
    /\ wp_tool = "add_textbox"
    /\ Written_(Only({Then(written, AlignLeft)
                      : written \in {WritePath(wp_html, wp_font_size)}}))

\* replace_textbox_content on an existing text box, no font_name and no
\* text_align
ReplaceTextboxContent ==
    /\ mode = "write"
    /\ wp_state = "ready"
    /\ wp_tool = "replace_textbox_content"
    /\ Written_(WritePath(wp_html, wp_font_size))

NextWrite == AddTextbox \/ ReplaceTextboxContent

SpecWrite == InitWrite /\ [][NextWrite]_vars

\* the k-th call is a call of the header pass
IsHeaderCall(c) == c.op \in {"HeaderRange", "HeaderSize", "HeaderBold"}

\* the calls op of the header pass on the range (st, ln)
HeaderCallsOn(op, st, ln) ==
    {j \in 1..Len(wp_calls) :
        /\ wp_calls[j].op = op
        /\ wp_calls[j].start = st
        /\ wp_calls[j].length = ln}

\* C16: the header pass runs after the inline runs are applied and, for
\* every header annotation of level 1..6 whose line is not empty, it
\* styles the range that starts at 1 + sum(len(line) + 1) over the
\* preceding lines and has the length of the line: a font size above the
\* base size and bold.
C16_HeaderPassStylesEveryLevel ==
    wp_state = "returned" =>
       LET processed == process_html_lists(wp_html)
           plain == parse_html_text(processed.text).plain
           lines == Split(plain, "\n")
           info == processed.list_info
       IN  /\ \A i, j \in 1..Len(wp_calls) :
                 (IsHeaderCall(wp_calls[i]) /\ i < j)
                    => (IsHeaderCall(wp_calls[j]) \/ wp_calls[j].op = "Alignment")
           /\ \A k \in 1..Len(info) :
                 (/\ info[k].type = "header"
                  /\ info[k].level \in 1..6
                  /\ info[k].line < Len(lines)
                  /\ Len(lines[info[k].line + 1]) > 0)
                 => LET st == SumLines(lines, info[k].line) + 1
                        ln == Len(lines[info[k].line + 1])
                    IN  /\ \E j \in HeaderCallsOn("HeaderSize", st, ln) :
                              wp_calls[j].value > BaseFontSize(wp_font_size)
                        /\ \E j \in HeaderCallsOn("HeaderBold", st, ln) :
                              wp_calls[j].value = MsoTrue

(***************************************************************************)
(* The round trip.  The target is a text range whose characters carry the  *)
(* Font members the codec touches; apply_html_formatting writes them and    *)
(* PowerPointSlideReader.convert_powerpoint_text_to_html reads them back.   *)
(* The calls of the applier that did not raise are carried out on the       *)
(* characters.  Access to a member in rt_raises raises, on writing and on   *)
(* reading.  The colour the target answers for the whole range is the       *)
(* colour of its characters when they agree; when they differ the code      *)
(* does not determine it, and it is any colour of a character or 0, the     *)
(* value the reader falls back to.                                          *)
(***************************************************************************)
Unstyled(c) ==
    [char |-> c, Bold |-> 0, Italic |-> 0, Underline |-> 0,
     Strikethrough |-> 0, Strike |-> 0, Color |-> 0, Fill |-> 0]

\* the characters after the call c of the applier
CarryOut(chars, c) ==
    IF c.op = "Text" THEN [k \in 1..Len(c.text) |-> Unstyled(c.text[k])]
    ELSE IF ~c.ok \/ c.op = "Characters" THEN chars
    ELSE [k \in 1..Len(chars) |->
            IF k >= c.start /\ k < c.start + c.length
            THEN [chars[k] EXCEPT ![c.op] = c.value]
            ELSE chars[k]]

RECURSIVE CarryOutAll(_, _, _)
CarryOutAll(chars, cs, k) ==
    IF k > Len(cs) THEN chars
    ELSE CarryOutAll(CarryOut(chars, cs[k]), cs, k + 1)

\* f"{n:02x}"
Hex2(n) == <<HexDigits[(n \div 16) + 1], HexDigits[(n % 16) + 1]>>

\* r = (color_rgb >> 16) & 0xFF, g = (color_rgb >> 8) & 0xFF,
\* b = color_rgb & 0xFF, hex_color = f"#{r:02x}{g:02x}{b:02x}"
HexColor(color_rgb) ==
    <<"#">> \o Hex2((color_rgb \div 65536) % 256)
            \o Hex2((color_rgb \div 256) % 256)
            \o Hex2(color_rgb % 256)

\* what the reader finds at one character
CharFormat(c, faults) ==
    [is_bold |-> c.Bold # 0,
     is_italic |-> c.Italic # 0,
     is_underline |-> c.Underline # 0,
     is_strikethrough |-> "Strike" \notin faults /\ c.Strike # 0,
     color_rgb |-> c.Color]

\* consecutive_length: the characters from i on that are formatted as i is
RECURSIVE ConsecutiveLength(_, _, _, _)
ConsecutiveLength(chars, i, n, faults) ==
    IF i + n <= Len(chars)
       /\ CharFormat(chars[i + n], faults) = CharFormat(chars[i], faults)
    THEN ConsecutiveLength(chars, i, n + 1, faults)
    ELSE n

\* whether the colour span is written
ColorTagged(f, default_color) ==
    /\ f.color_rgb # default_color
    /\ f.color_rgb # 0
    /\ HexColor(f.color_rgb) # <<"#", "0", "0", "0", "0", "0", "0">>

OpenTags(f, default_color) ==
    (IF f.is_bold THEN <<"<", "b", ">">> ELSE <<>>)
    \o (IF f.is_italic THEN <<"<", "i", ">">> ELSE <<>>)
    \o (IF f.is_underline THEN <<"<", "u", ">">> ELSE <<>>)
    \o (IF f.is_strikethrough THEN <<"<", "s", ">">> ELSE <<>>)
    \o (IF ColorTagged(f, default_color)
        THEN <<"<", "s", "p", "a", "n", " ", "s", "t", "y", "l", "e", "=",
              "\"", "c", "o", "l", "o", "r", ":",
              " ">> \o HexColor(f.color_rgb) \o <<"\"", ">">>
        ELSE <<>>)

CloseTags(f, default_color) ==
    (IF ColorTagged(f, default_color) THEN <<"<", "/", "s", "p", "a", "n",
          ">">> ELSE <<>>)
    \o (IF f.is_strikethrough THEN <<"<", "/", "s", ">">> ELSE <<>>)
    \o (IF f.is_underline THEN <<"<", "/", "u", ">">> ELSE <<>>)
    \o (IF f.is_italic THEN <<"<", "/", "i", ">">> ELSE <<>>)
    \o (IF f.is_bold THEN <<"<", "/", "b", ">">> ELSE <<>>)

\* .replace('&', '&amp;').replace('<', '&lt;').replace('>', '&gt;')
RECURSIVE EscapeHtml(_)
EscapeHtml(s) ==
    IF s = <<>> THEN <<>>
    ELSE (CASE Head(s) = "&" -> <<"&", "a", "m", "p", ";">>
            [] Head(s) = "<" -> <<"&", "l", "t", ";">>
            [] Head(s) = ">" -> <<"&", "g", "t", ";">>
            [] OTHER -> <<Head(s)>>) \o EscapeHtml(Tail(s))

\* the while loop, from the character i on
RECURSIVE HtmlParts(_, _, _, _)
HtmlParts(chars, i, faults, default_color) ==
    IF i > Len(chars) THEN <<>>
    ELSE Only({(OpenTags(CharFormat(chars[i], faults), default_color)
                \o EscapeHtml([k \in 1..n |-> chars[i + k - 1].char])
                \o CloseTags(CharFormat(chars[i], faults), default_color)
                \o HtmlParts(chars, i + n, faults, default_color))
               : n \in {ConsecutiveLength(chars, i, 1, faults)}})

convert_powerpoint_text_to_html(chars, faults, default_color) ==
    IF chars = <<>> THEN <<>> ELSE HtmlParts(chars, 1, faults, default_color)

\* text_range.Font.Color.RGB of the whole range
RangeColors(chars) ==
    IF \A j, k \in 1..Len(chars) : chars[j].Color = chars[k].Color
    THEN {IF chars = <<>> THEN 0 ELSE chars[1].Color}
    ELSE {chars[k].Color : k \in 1..Len(chars)} \cup {0}

(***************************************************************************)
(* Round-trip inputs: one element of RoundTags around one of RoundInner,    *)
(* alone or with text before and after it, on a target where                *)
(* Strikethrough, Strike, both or neither can be accessed.                  *)
(***************************************************************************)
RoundTag(open, close) == [open |-> open, close |-> close]

RoundTags ==
    {RoundTag(<<"<", "b", ">">>, <<"<", "/", "b", ">">>),
     RoundTag(<<"<", "s", "t", "r", "o", "n", "g", ">">>, <<"<", "/", "s",
           "t", "r", "o", "n", "g", ">">>),
     RoundTag(<<"<", "i", ">">>, <<"<", "/", "i", ">">>),
     RoundTag(<<"<", "e", "m", ">">>, <<"<", "/", "e", "m", ">">>),
     RoundTag(<<"<", "u", ">">>, <<"<", "/", "u", ">">>),
     RoundTag(<<"<", "s", ">">>, <<"<", "/", "s", ">">>),
     RoundTag(<<"<", "s", "p", "a", "n", " ", "s", "t", "y", "l", "e", "=",
           "\"", "c", "o", "l", "o", "r", ":", " ", "r", "e", "d", "\"",
           ">">>, <<"<", "/", "s", "p", "a", "n", ">">>),
     RoundTag(<<"<", "s", "p", "a", "n", " ", "s", "t", "y", "l", "e", "=",
           "\"", "c", "o", "l", "o", "r", ":", " ", "#", "f", "f", "8", "0",
           "0", "0", "\"", ">">>, <<"<", "/", "s", "p", "a", "n", ">">>)}

RoundInner == {<<"H", "e", "l", "l", "o">>, <<"a", "&", "a", "m", "p", ";",
      "b">>}

RoundBefore == {<<>>, <<"s", "a", "y", " ">>}

RoundAfter == {<<>>, <<" ", "w", "o", "r", "l", "d">>}

RoundInputs ==
    {before \o t.open \o inner \o t.close \o after :
        t \in RoundTags, inner \in RoundInner,
        before \in RoundBefore, after \in RoundAfter}

RoundTargets == {{}, {"Strikethrough"}, {"Strikethrough", "Strike"}}

InitRound ==
    /\ mode = "round"
    /\ IdleHtml
    /\ IdleMd
    /\ IdleApply
    /\ IdleLists
    /\ IdleWrite
    /\ IdleContext
    /\ IdleModify
    /\ IdleScan
    /\ IdleNest
    /\ rt_html \in RoundInputs
    /\ rt_raises \in RoundTargets
    /\ rt_chars = <<>>
    /\ rt_default = 0
    /\ rt_encoded = <<>>
    /\ rt_state = "ready"

\* parse_html_text, then apply_html_formatting on the target
WriteMarkup ==
    /\ mode = "round"
    /\ rt_state = "ready"
    /\ rt_chars' =
          Only({(CarryOutAll(rt_chars,
                             apply_html_formatting(
                                 parsed.plain, parsed.segments,
                                 {<<i, m>> : i \in 1..Len(parsed.segments),
                                             m \in rt_raises}).calls,
                             1))
                : parsed \in {parse_html_text(rt_html)}})
    /\ rt_state' = "written"
    /\ UNCHANGED <<mode, rt_html, rt_raises, rt_default, rt_encoded,
                   htmlVars, mdVars, apVars, listVars, wpVars, ctxVars,
                   mtVars, scVars, nestVars>>

\* convert_powerpoint_text_to_html on the target
ReadMarkup ==
    /\ mode = "round"
    /\ rt_state = "written"
    /\ \E d \in RangeColors(rt_chars) :
          /\ rt_default' = d
          /\ rt_encoded' = convert_powerpoint_text_to_html(rt_chars,
                rt_raises, d)
    /\ rt_state' = "read"
    /\ UNCHANGED <<mode, rt_html, rt_raises, rt_chars,
                   htmlVars, mdVars, apVars, listVars, wpVars, ctxVars,
                   mtVars, scVars, nestVars>>

NextRound == WriteMarkup \/ ReadMarkup

SpecRound == InitRound /\ [][NextRound]_vars

\* the text of a markup string and, for each of its runs, where the run
\* lies and which kinds of formatting it carries
TagsAndText(markup) ==
    Only({([plain |-> parsed.plain,
            tags |-> {<<parsed.segments[k].start, parsed.segments[k].length,
                        parsed.segments[k].formatting.keys>> :
                      k \in {j \in 1..Len(parsed.segments) :
                                parsed.segments[j].formatting.keys # {}}}])
          : parsed \in {parse_html_text(markup)}})

\* the target on which the member the applier ends up writing for
\* strikethrough (Strike, after Strikethrough raised) is the member the
\* reader reads
StrikeReadBack == rt_raises = {"Strikethrough"}

\* C17: when markup of a single style is parsed, applied to a target whose
\* characters start unstyled, and read back with
\* convert_powerpoint_text_to_html, the markup read back has the same text
\* and the same kinds of tags around the same characters as the markup
\* written (the tag's spelling and the colour's notation and value may
\* differ).  Stated for the target on which strikethrough can be read back.
C17_RoundTrip ==
    (rt_state = "read" /\ StrikeReadBack)
        => TagsAndText(rt_encoded) = TagsAndText(rt_html)

(***************************************************************************)
(* The slide context cache.  The document is, for each slide, the number   *)
(* of changes made to it; a snapshot of a slide is the slide's index with  *)
(* that number at the time read_slide_content ran.  A tool is called for   *)
(* an object that is on slide s, or on no slide (s = 0), in which case it  *)
(* reports that and changes nothing.  The user may show another slide at   *)
(* any time.                                                               *)
(***************************************************************************)
MaxSlides == 2
MaxEdits == 2

Slides == 1..MaxSlides

\* format_slide_context(read_slide_content(s))
Snapshot(s) == [slide |-> s, rev |-> slide_rev[s]]

InitContext ==
    /\ mode = "context"
    /\ IdleHtml
    /\ IdleMd
    /\ IdleApply
    /\ IdleLists
    /\ IdleWrite
    /\ IdleRound
    /\ IdleModify
    /\ IdleScan
    /\ IdleNest
    /\ slide_rev = [s \in Slides |-> 0]
    /\ active_slide \in Slides
    /\ current_slide_index = 0
    /\ current_slide_context = NoContext
    /\ ctx_returned = NoContext
    /\ ctx_op = "none"
    /\ ctx_read = FALSE

ContextIdleRest ==
    UNCHANGED <<mode, htmlVars, mdVars, apVars, listVars, wpVars, rtVars,
                mtVars, scVars, nestVars>>

\* a change of slide s by the tool op, where the bound allows one
Changes(op, s) ==
    /\ mode = "context"
    /\ s \in Slides
    /\ slide_rev[s] < MaxEdits
    /\ slide_rev' = [slide_rev EXCEPT ![s] = @ + 1]
    /\ ctx_op' = op
    /\ ctx_returned' = NoContext
    /\ ctx_read' = FALSE
    /\ UNCHANGED active_slide
    /\ ContextIdleRest

\* reader.clear_context_cache()
clear_context_cache ==
    /\ current_slide_context' = NoContext
    /\ current_slide_index' = 0

KeepsCache == UNCHANGED <<current_slide_index, current_slide_context>>

\* a call that finds no object, or raises before it changes anything
NotFound(op) ==
    /\ mode = "context"
    /\ ctx_op' = op
    /\ ctx_returned' = NoContext
    /\ ctx_read' = FALSE
    /\ UNCHANGED <<slide_rev, active_slide>>
    /\ KeepsCache
    /\ ContextIdleRest

add_textbox ==
    \E s \in 0..MaxSlides :
        IF s = 0 THEN NotFound("add_textbox")
        ELSE Changes("add_textbox", s) /\ clear_context_cache

\* replace_textbox_content, modify_text_in_textbox, add_text_to_textbox and
\* format_textbox_style
update_textbox_internal ==
    \E s \in 0..MaxSlides :
        IF s = 0 THEN NotFound("update_textbox_internal")
        ELSE Changes("update_textbox_internal", s) /\ clear_context_cache

move_object ==
    \E s \in 0..MaxSlides :
        IF s = 0 THEN NotFound("move_object")
        ELSE Changes("move_object", s) /\ KeepsCache

resize_object ==
    \E s \in 0..MaxSlides :
        IF s = 0 THEN NotFound("resize_object")
        ELSE Changes("resize_object", s) /\ KeepsCache

position_and_resize_object ==
    \E s \in 0..MaxSlides :
        IF s = 0 THEN NotFound("position_and_resize_object")
        ELSE Changes("position_and_resize_object", s) /\ KeepsCache

\* s is the slide of the copy
copy_object_to_slide ==
    \E s \in 0..MaxSlides :
        IF s = 0 THEN NotFound("copy_object_to_slide")
        ELSE Changes("copy_object_to_slide", s) /\ KeepsCache

duplicate_object_on_same_slide ==
    \E s \in 0..MaxSlides :
        IF s = 0 THEN NotFound("duplicate_object_on_same_slide")
        ELSE Changes("duplicate_object_on_same_slide", s) /\ KeepsCache

delete_object ==
    \E s \in 0..MaxSlides :
        IF s = 0 THEN NotFound("delete_object")
        ELSE Changes("delete_object", s) /\ clear_context_cache

\* the slide index and context are read again
Refreshed ==
    /\ current_slide_index' = active_slide
    /\ current_slide_context' = Snapshot(active_slide)
    /\ ctx_returned' = Snapshot(active_slide)
    /\ ctx_read' = TRUE

\* a get_current_context that would read the slide on every call
get_current_context_reading ==
    /\ mode = "context"
    /\ Refreshed
    /\ ctx_op' = "get_current_context"
    /\ UNCHANGED <<slide_rev, active_slide>>
    /\ ContextIdleRest

get_current_context ==
    /\ mode = "context"
    /\ IF active_slide # current_slide_index
          \/ current_slide_context = NoContext
       THEN Refreshed
       ELSE /\ ctx_returned' = current_slide_context
            /\ ctx_read' = FALSE
            /\ KeepsCache
    /\ ctx_op' = "get_current_context"
    /\ UNCHANGED <<slide_rev, active_slide>>
    /\ ContextIdleRest

force_refresh_context ==
    /\ mode = "context"
    /\ Refreshed
    /\ ctx_op' = "force_refresh_context"
    /\ UNCHANGED <<slide_rev, active_slide>>
    /\ ContextIdleRest

\* the user shows another slide
ShowSlide ==
    /\ mode = "context"
    /\ \E s \in Slides \ {active_slide} : active_slide' = s
    /\ ctx_op' = "show_slide"
    /\ ctx_returned' = NoContext
    /\ ctx_read' = FALSE
    /\ UNCHANGED slide_rev
    /\ KeepsCache
    /\ ContextIdleRest

NextContext ==
    \/ add_textbox
    \/ update_textbox_internal
    \/ move_object
    \/ resize_object
    \/ position_and_resize_object
    \/ copy_object_to_slide
    \/ duplicate_object_on_same_slide
    \/ delete_object
    \/ get_current_context
    \/ force_refresh_context
    \/ ShowSlide

SpecContext == InitContext /\ [][NextContext]_vars

\* C18: what get_current_context returns is a snapshot of the slide as it
\* is now: no change made by a tool since the snapshot was computed is
\* missing from it.
C18_NoStaleContext ==
    ctx_op = "get_current_context"
        => ctx_returned.rev = slide_rev[ctx_returned.slide]

(***************************************************************************)
(* modify_text_in_textbox: _update_textbox_internal called with            *)
(* regex_finder and replacement_text only, for a textbox that exists.      *)
(* The patterns are literals, matched as re does with re.IGNORECASE (the   *)
(* default regex_flags).  The calls on the text range are recorded with    *)
(* the number of the match as run: MatchText is the assignment of Text to  *)
(* the range of a match; Characters, Bold, Italic, Underline, Strike and   *)
(* Color are the formatting of a run of the replacement.                   *)
(***************************************************************************)
\* the starts of the matches of re.finditer(find, text, re.IGNORECASE)
RECURSIVE LiteralMatches(_, _, _)
LiteralMatches(text, find, pos) ==
    Only({(IF i < 0 THEN <<>>
           ELSE <<i>> \o LiteralMatches(text, find, i + Len(find)))
          : i \in {Find(Lower(text), Lower(find), pos)}})

\* re.sub(find, repl, text, flags=re.IGNORECASE)
RECURSIVE SubLiteral(_, _, _, _)
SubLiteral(text, find, repl, pos) ==
    Only({(IF i < 0 THEN SliceFrom(text, pos)
           ELSE Slice(text, pos, i) \o repl
                \o SubLiteral(text, find, repl, i + Len(find)))
          : i \in {Find(Lower(text), Lower(find), pos)}})

\* the markers that select the HTML branch
HtmlMarkers ==
    {<<"<", "b", ">">>, <<"<", "i", ">">>, <<"<", "u", ">">>, <<"<", "s",
          ">">>, <<"<", "s", "p", "a", "n">>, <<"<", "s", "t", "r", "o", "n",
          "g", ">">>, <<"<", "e", "m", ">">>}

HasHtmlMarker(replacement_text) ==
    \E marker \in HtmlMarkers : Contains(replacement_text, marker)

MtCall(op, k, st, ln, v, text) == Call(op, k, st, ln, v, TRUE, text)

\* the colour statement of the replacement branch
MtColorCalls(k, st, seg) ==
    IF ~GetText(seg.formatting, "color") THEN <<>>
    ELSE LET color_value == seg.formatting.color
         IN  IF StartsWithAt(color_value, 0, <<"#">>)
             THEN LET hex_color == SliceFrom(color_value, 1)
                      r == IntHex(Slice(hex_color, 0, 2))
                      g == IntHex(Slice(hex_color, 2, 4))
                      b == IntHex(Slice(hex_color, 4, 6))
                  IN  IF Len(hex_color) = 6 /\ r.ok /\ g.ok /\ b.ok
                      THEN <<MtCall("Color", k, st, seg.length,
                                    r.value + (g.value * 256)
                                    + (b.value * 65536), <<>>)>>
                      ELSE <<>>
             ELSE IF Lower(color_value) \in ColorNames
             THEN <<MtCall("Color", k, st, seg.length,
                           ColorMap(Lower(color_value)), <<>>)>>
             ELSE <<>>

\* the formatting of one run of the replacement put at replacement_start_pos
MtSegmentCalls(k, replacement_start_pos, seg) ==
    LET absolute_start == replacement_start_pos + seg.start - 1
        Flag(key, member) ==
            IF GetFlag(seg.formatting, key)
            THEN <<MtCall(member, k, absolute_start, seg.length, MsoTrue,
                          <<>>)>>
            ELSE <<>>
    IN  IF seg.length > 0
        THEN <<MtCall("Characters", k, absolute_start, seg.length, 0, <<>>)>>
             \o Flag("bold", "Bold") \o Flag("italic", "Italic")
             \o Flag("underline", "Underline")
             \o Flag("strikethrough", "Strike")
             \o MtColorCalls(k, absolute_start, seg)
        ELSE <<>>

RECURSIVE MtSegmentsCalls(_, _, _, _)
MtSegmentsCalls(k, replacement_start_pos, segments, j) ==
    IF j > Len(segments) THEN <<>>
    ELSE MtSegmentCalls(k, replacement_start_pos, segments[j])
         \o MtSegmentsCalls(k, replacement_start_pos, segments, j + 1)

\* for match in reversed(matches), from match k down
RECURSIVE ReplaceMatches(_, _, _, _, _)
ReplaceMatches(box, matches, k, find, parsed) ==
    IF k = 0 THEN box
    ELSE ReplaceMatches(
            [text |-> Slice(box.text, 0, matches[k]) \o parsed.plain
                      \o SliceFrom(box.text, matches[k] + Len(find)),
             calls |-> box.calls
                       \o <<MtCall("MatchText", k, matches[k] + 1, Len(find),
                                   0, parsed.plain)>>
                       \o MtSegmentsCalls(k, matches[k] + 1, parsed.segments,
                                          1)],
            matches, k - 1, find, parsed)

\* the textbox and the message after the call
modify_text_in_textbox(text, find_pattern, replacement_text) ==
    IF find_pattern # <<>> /\ replacement_text = <<>>
    THEN [text |-> text, calls |-> <<>>, report |-> "error_no_replacement"]
    ELSE IF text = <<>>
    THEN [text |-> text, calls |-> <<>>, report |-> "no_text"]
    ELSE IF find_pattern = <<>>
    THEN [text |-> text, calls |-> <<>>, report |-> "no_updates"]
    ELSE Only({(
        IF matches = <<>>
        THEN [text |-> text, calls |-> <<>>, report |-> "no_matches"]
        ELSE IF HasHtmlMarker(replacement_text)
        THEN Only({([text |-> box.text, calls |-> box.calls,
                     report |-> "replaced"])
                   : box \in {ReplaceMatches(
                                 [text |-> text, calls |-> <<>>], matches,
                                 Len(matches), find_pattern,
                                 parse_html_text(
                                     process_html_lists(replacement_text).text))}})
        ELSE [text |-> SubLiteral(text, find_pattern, replacement_text, 0),
              calls |-> <<>>, report |-> "replaced"])
        : matches \in {LiteralMatches(text, find_pattern, 0)}})

BoxTexts == {<<>>, <<"f", "o", "o", " ", "b", "a", "r", " ", "F", "o", "o">>,
      <<"o", "o">>, <<"b", "a", "r">>, <<"a", " ", "f", "o", "o">>}

FindPatterns == {<<>>, <<"f", "o", "o">>, <<"o">>, <<"z", "z">>}

Replacements == {<<>>, <<"X">>, <<"<", "b", ">", "Y", "<", "/", "b", ">",
      "z">>, <<"f", "o", "o">>, <<"<", "s", "p", "a", "n", " ", "s", "t", "y",
      "l", "e", "=", "\"", "c", "o", "l", "o", "r", ":", " ", "#", "1", "0",
      "2", "0", "3", "0", "\"", ">", "c", "<", "/", "s", "p", "a", "n", ">">>}

InitModify ==
    /\ mode = "modify"
    /\ IdleHtml
    /\ IdleMd
    /\ IdleApply
    /\ IdleLists
    /\ IdleWrite
    /\ IdleRound
    /\ IdleContext
    /\ IdleScan
    /\ IdleNest
    /\ mt_text \in BoxTexts
    /\ mt_find \in FindPatterns
    /\ mt_replacement \in Replacements
    /\ mt_calls = <<>>
    /\ mt_report = "none"
    /\ mt_state = "ready"

ModifyTextInTextbox ==
    /\ mode = "modify"
    /\ mt_state = "ready"
    /\ \E r \in {modify_text_in_textbox(mt_text, mt_find, mt_replacement)} :
          /\ mt_text' = r.text
          /\ mt_calls' = r.calls
          /\ mt_report' = r.report
    /\ mt_state' = "returned"
    /\ UNCHANGED <<mode, mt_find, mt_replacement,
                   htmlVars, mdVars, apVars, listVars, wpVars, rtVars,
                   ctxVars, scVars, nestVars>>

NextModify == ModifyTextInTextbox

SpecModify == InitModify /\ [][NextModify]_vars

\* C19: a call of modify_text_in_textbox with a pattern that matches and
\* the empty string as replacement_text leaves the textbox's text with
\* every match removed and the rest as it was, and reports a replacement.
C19_EmptyReplacementDeletes ==
    [][(/\ mt_state = "ready"
        /\ mt_state' = "returned"
        /\ mt_replacement = <<>>
        /\ mt_find # <<>>
        /\ LiteralMatches(mt_text, mt_find, 0) # <<>>)
       => (/\ mt_report' = "replaced"
           /\ mt_text' = SubLiteral(mt_text, mt_find, <<>>, 0))]_vars

(***************************************************************************)
(* The runs of the plain patterns.  For a text in which one plain pattern  *)
(* matches and no other pattern does, before or after the delimiters are   *)
(* stripped, the returned plain text is the text with every match          *)
(* replaced by its content, and the content of a match stands in it as     *)
(* many characters further left as delimiters were stripped from the       *)
(* matches before it.                                                      *)
(***************************************************************************)
PlainPatterns == {k \in 1..Len(Patterns) : Patterns[k].kind # "block"}

\* the characters stripped from the matches before match k
RECURSIVE StrippedBefore(_, _)
StrippedBefore(matches, k) ==
    IF k = 1 THEN 0
    ELSE StrippedBefore(matches, k - 1)
         + (matches[k - 1].end - matches[k - 1].start)
         - Len(matches[k - 1].g1)

\* the 1-based offset of the content of match k in the final plain text
FinalStart(matches, k) == matches[k].start + 1 - StrippedBefore(matches, k)

\* pattern k is the only pattern at work on text
OnlyPattern(text, k) ==
    /\ FindAll(Patterns[k], text, 0) # <<>>
    /\ \A j \in (1..Len(Patterns)) \ {k} :
          /\ FindAll(Patterns[j], text, 0) = <<>>
          /\ FindAll(Patterns[j],
                     Pass(Patterns[k],
                          [plain |-> text, segments |-> <<>>]).plain,
                     0) = <<>>

\* where the runs lie and what they carry
RunsOf(segments) ==
    {<<segments[i].start, segments[i].length, segments[i].formatting.keys>> :
        i \in 1..Len(segments)}

\* C20: for a text on which only one plain pattern is at work, each match
\* with content gives one recorded run, whose start is the 1-based offset
\* of the first character of that content in the returned plain text and
\* whose length is the length of the content.
C20_PlainRunOffsets ==
    md_result.returned =>
       \A k \in PlainPatterns :
          OnlyPattern(markdown_text, k) =>
             LET matches == FindAll(Patterns[k], markdown_text, 0)
             IN  RunsOf(md_result.segments) =
                    {<<FinalStart(matches, i), Len(matches[i].g1),
                       {Patterns[k].key}>> :
                       i \in {j \in 1..Len(matches) : matches[j].g1 # <<>>}}

(***************************************************************************)
(* Colour and background blocks.  A text that is one block from its first  *)
(* character to its last is replaced by the plain text of the block's      *)
(* content (lines 66-69); the block's run is recorded at start + 1 with    *)
(* the length of that plain text (lines 72-76) and the runs of the content *)
(* are appended at start + their own 1-based start (lines 79-84).          *)
(***************************************************************************)
BlockPatterns == {k \in 1..Len(Patterns) : Patterns[k].kind = "block"}

\* text is one block of pattern k and no earlier pattern matches in it
IsWholeBlock(text, k) ==
    /\ \A j \in 1..(k - 1) : FindAll(Patterns[j], text, 0) = <<>>
    /\ Only({/\ Len(ms) = 1
             /\ ms[1].start = 0
             /\ ms[1].end = Len(text)
             : ms \in {FindAll(Patterns[k], text, 0)}})

\* the run of the block m of pattern k whose content has the plain text
\* nested_plain
BlockRun(k, m, nested_plain) ==
    Segment(RunStart(m), Len(nested_plain),
            DictSet(NoFormatting, Patterns[k].key, m.g1))

\* run seg covers no position outside the run block
InsideRun(seg, block) ==
    /\ seg.start >= block.start
    /\ seg.start + seg.length <= block.start + block.length

\* what lines 62-84 give for the block m of pattern k with the parsed
\* content nested, seen against the returned plain text and runs
BlockResult(plain, segments, k, m, nested) ==
    /\ plain = nested.plain
    /\ segments =
          SortByStart(<<BlockRun(k, m, nested.plain)>>
                      \o RebaseNested(m, nested.segments))
    /\ \A i \in 1..Len(segments) :
          InsideRun(segments[i], BlockRun(k, m, plain))

\* C21: for a text that is one colour or background block, the returned
\* plain text is the plain text of the block's content, the returned runs
\* are the block's run over that whole plain text together with the runs
\* of the re-parsed content moved to (0-based start of the block + their
\* 1-based start), and every returned run lies inside the block's run.
C21_BlockRuns ==
    md_result.returned =>
       \A k \in BlockPatterns :
          IsWholeBlock(markdown_text, k) =>
             Only({BlockResult(md_result.plain, md_result.segments, k, m,
                               parse_markdown_text(m.g2))
                   : m \in {FindAll(Patterns[k], markdown_text, 0)[1]}})

(***************************************************************************)
(* Closing tags and the stack.  handle_endtag scans the stack from the top *)
(* for an entry with the tag's name and pops that entry alone (lines       *)
(* 61-63); without such an entry the loop ends and nothing is assigned.    *)
(***************************************************************************)
\* the entries of the stack that have this tag name
SameName(stack, tag) == {i \in 1..Len(stack) : stack[i].tag = tag}

\* the stack without its entry i: the entries below i and the entries
\* above i are the ones they were, start positions included
RemovedExactly(before, after, i) ==
    /\ Len(after) = Len(before) - 1
    /\ \A j \in 1..(i - 1) : after[j] = before[j]
    /\ \A j \in (i + 1)..Len(before) : after[j - 1] = before[j]

\* the scan picked entry i for this tag: no entry above it has the name
NearestTheTop(stack, tag, i) ==
    /\ i \in SameName(stack, tag)
    /\ \A j \in SameName(stack, tag) : j <= i

\* C22: a closing tag removes from the stack exactly the entry nearest the
\* top that has the tag's name and leaves every other entry, those opened
\* after it included, on the stack as it was; a closing tag without an
\* entry of its name leaves the stack, the runs and the plain text as
\* they were.
C22_NearestNameClosed ==
    [][\A tag \in EndTagEvents :
          HandleEndTag(tag) =>
             IF SameName(tag_stack, tag) = {}
             THEN /\ tag_stack' = tag_stack
                  /\ format_segments' = format_segments
                  /\ plain_text' = plain_text
             ELSE /\ \E i \in 1..Len(tag_stack) :
                        /\ NearestTheTop(tag_stack, tag, i)
                        /\ RemovedExactly(tag_stack, tag_stack', i)
                  /\ plain_text' = plain_text]_vars

\* C22 witness: two runs were closed, the one closed first was opened
\* first, and the one closed second was opened inside it and produced its
\* own run after the first had gone from the stack.
C22_Witness ==
    /\ closes = 2
    /\ tag_stack = <<>>
    /\ Len(format_segments) = 2
    /\ format_segments[1].start < format_segments[2].start
    /\ format_segments[2].start
          < format_segments[1].start + format_segments[1].length
    /\ format_segments[2].start + format_segments[2].length
          = current_position + 1

(***************************************************************************)
(* Tags left open.  parse_html_text returns the runs handle_endtag has     *)
(* appended and nothing else (lines 131-134): the entries still on the     *)
(* stack are not looked at.  Every event is one call of a handler, an      *)
(* entry is on the stack or was popped by a closing tag, and a run comes   *)
(* from a pop.                                                             *)
(***************************************************************************)
\* the runs counted against the calls made: at most one per closing tag,
\* and none for an entry still on the stack
RunsFromCloses(segments) ==
    /\ Len(segments) <= closes
    /\ Len(segments) + Len(tag_stack) + closes <= events

\* C23: the runs held and the runs returned never outnumber the closing
\* tags processed, an entry that is still on the stack at the end of the
\* input has no run, and the returned plain text is all the text fed,
\* the text after a tag that stays open included.
C23_UnclosedTagsDropped ==
    /\ RunsFromCloses(format_segments)
    /\ html_result.returned =>
          /\ RunsFromCloses(html_result.segments)
          /\ html_result.plain = plain_text
          /\ \A k \in 1..Len(tag_stack) :
                tag_stack[k].start_position <= Len(html_result.plain)

\* C23 witness: a parse returned with a tag still open that has text after
\* it, next to a run of a tag that was closed.
C23_Witness ==
    /\ html_result.returned
    /\ Len(html_result.segments) = 1
    /\ closes = 1
    /\ \E k \in 1..Len(tag_stack) :
          tag_stack[k].start_position < Len(html_result.plain)

(***************************************************************************)
(* The scan of the reverse codec, one iteration of the while loop at a     *)
(* time.  The target answers the queries Characters(pos, 1), Font.Bold,    *)
(* Font.Italic, Font.Underline, Font.Strike and Font.Color.RGB; each       *)
(* query may raise.  ScanFaults are the queries that raise during one      *)
(* iteration: none, or one member at one position.  A raise of Strike or   *)
(* Color is caught next to the query (lines 257-267, 281-291); any other   *)
(* raise leaves the iteration through "except Exception" (lines 352-356)   *)
(* when it comes from the first character and ends the look-ahead (lines   *)
(* 303-304) when it comes from a later one.                                *)
(***************************************************************************)
MaxScan == 3        \* characters of the text that is read back

ScanText == <<"a", "&", "c", "<", "e">>

\* the attributes a character of the target can have
ScanStyles ==
    {[Bold |-> 0, Strike |-> 0, Color |-> 0],
     [Bold |-> 1, Strike |-> 0, Color |-> 0],
     [Bold |-> 0, Strike |-> 1, Color |-> 255]}

ScanTargets ==
    UNION {{[k \in 1..n |->
               [Unstyled(ScanText[k]) EXCEPT !.Bold = st[k].Bold,
                                             !.Strike = st[k].Strike,
                                             !.Color = st[k].Color]]
            : st \in [1..n -> ScanStyles]} : n \in 0..MaxScan}

ScanMembers ==
    {"Characters", "Bold", "Italic", "Underline", "Strike", "Color"}

ScanFaults ==
    {{}} \cup {{<<pos, m>>} : pos \in 1..MaxScan, m \in ScanMembers}

\* a query at pos that raises out of the try block around the character
QueryRaises(F, pos) ==
    \E m \in {"Characters", "Bold", "Italic", "Underline"} : <<pos, m>> \in F

\* is_bold, is_italic, is_underline, is_strikethrough and color_rgb of
\* the character at pos (lines 249-267)
QueryFormat(chars, pos, F, default_color) ==
    [is_bold |-> chars[pos].Bold # 0,
     is_italic |-> chars[pos].Italic # 0,
     is_underline |-> chars[pos].Underline # 0,
     is_strikethrough |-> <<pos, "Strike">> \notin F /\ chars[pos].Strike # 0,
     color_rgb |-> IF <<pos, "Color">> \in F THEN default_color
                   ELSE chars[pos].Color]

\* a look-ahead that takes no further character
LookAheadNone(chars, i, current_pos, n, F, default_color) == n

\* the inner while loop (lines 274-304): consecutive_length, counted up
\* from n, for the part that starts at full_text[i] and position
\* current_pos
RECURSIVE LookAhead(_, _, _, _, _, _)
LookAhead(chars, i, current_pos, n, F, default_color) ==
    IF /\ i + n < Len(chars)
       /\ ~QueryRaises(F, current_pos + n)
       /\ QueryFormat(chars, current_pos + n, F, default_color)
             = QueryFormat(chars, current_pos, F, default_color)
    THEN LookAhead(chars, i, current_pos, n + 1, F, default_color)
    ELSE n

\* full_text[i:i + n]
FullText(chars, i, n) == [k \in 1..n |-> chars[i + k].char]

\* the part appended by an iteration that found the format f for n
\* characters (lines 307-346)
FormattedPart(chars, i, n, f, default_color) ==
    [fallback |-> FALSE, first |-> i, text |-> FullText(chars, i, n),
     format |-> f,
     html |-> OpenTags(f, default_color)
              \o EscapeHtml(FullText(chars, i, n))
              \o CloseTags(f, default_color)]

\* the part appended by "except Exception" (line 354)
FallbackPart(chars, i) ==
    [fallback |-> TRUE, first |-> i, text |-> FullText(chars, i, 1),
     format |-> CharFormat(Unstyled(""), {}),
     html |-> FullText(chars, i, 1)]

\* i and current_pos after an iteration that consumed n characters
\* (lines 349-350; lines 355-356 with n = 1)
NextIndex(i, n) == i + n

\* a position that is left where it is
NextPositionSame(current_pos, n) == current_pos

NextPosition(current_pos, n) == current_pos + n

InitScan ==
    /\ mode = "scan"
    /\ IdleHtml
    /\ IdleMd
    /\ IdleApply
    /\ IdleLists
    /\ IdleWrite
    /\ IdleRound
    /\ IdleContext
    /\ IdleModify
    /\ IdleNest
    /\ sc_chars \in ScanTargets
    /\ sc_default = 0
    /\ sc_i = 0
    /\ sc_current_pos = 0
    /\ sc_html_parts = <<>>
    /\ sc_faulted = FALSE
    /\ sc_state = "called"

ScanIdleRest ==
    UNCHANGED <<mode, htmlVars, mdVars, apVars, listVars, wpVars, rtVars,
                ctxVars, mtVars, nestVars>>

\* lines 227-239: an empty text returns at once; otherwise current_pos is
\* 1 and default_color is the colour of the whole range, or 0 when that
\* query raises
StartScan ==
    /\ mode = "scan"
    /\ sc_state = "called"
    /\ IF sc_chars = <<>>
       THEN /\ sc_state' = "returned"
            /\ UNCHANGED <<sc_default, sc_current_pos, sc_faulted>>
       ELSE /\ sc_state' = "scanning"
            /\ sc_current_pos' = 1
            /\ \/ /\ sc_default' \in RangeColors(sc_chars)
                  /\ UNCHANGED sc_faulted
               \/ /\ sc_default' = 0
                  /\ sc_faulted' = TRUE
    /\ UNCHANGED <<sc_chars, sc_i, sc_html_parts>>
    /\ ScanIdleRest

\* one iteration of "while i < len(full_text)" (lines 243-356)
ScanIteration(F) ==
    /\ mode = "scan"
    /\ sc_state = "scanning"
    /\ sc_i < Len(sc_chars)
    /\ IF QueryRaises(F, sc_current_pos)
       THEN /\ sc_html_parts' =
                  Append(sc_html_parts, FallbackPart(sc_chars, sc_i))
            /\ sc_i' = NextIndex(sc_i, 1)
            /\ sc_current_pos' = NextPosition(sc_current_pos, 1)
       ELSE \E n \in {LookAhead(sc_chars, sc_i, sc_current_pos, 1, F,
                                sc_default)} :
               /\ sc_html_parts' =
                     Append(sc_html_parts,
                            FormattedPart(sc_chars, sc_i, n,
                                          QueryFormat(sc_chars,
                                                      sc_current_pos, F,
                                                      sc_default),
                                          sc_default))
               /\ sc_i' = NextIndex(sc_i, n)
               /\ sc_current_pos' = NextPosition(sc_current_pos, n)
    /\ sc_faulted' = (sc_faulted \/ F # {})
    /\ UNCHANGED <<sc_chars, sc_default, sc_state>>
    /\ ScanIdleRest

\* the loop ends and ''.join(html_parts) is returned (line 358)
ScanReturn ==
    /\ mode = "scan"
    /\ sc_state = "scanning"
    /\ sc_i >= Len(sc_chars)
    /\ sc_state' = "returned"
    /\ UNCHANGED <<sc_chars, sc_default, sc_i, sc_current_pos,
                   sc_html_parts, sc_faulted>>
    /\ ScanIdleRest

NextScan ==
    \/ StartScan
    \/ \E F \in ScanFaults : ScanIteration(F)
    \/ ScanReturn

SpecScan == InitScan /\ [][NextScan]_vars

\* the scan is a sequential loop: it goes on as long as it can
SpecScanRuns == SpecScan /\ WF_vars(NextScan)

\* C24: as long as no style query has raised, any two adjacent parts
\* emitted differ in bold, italic, underline, strikethrough or resolved
\* colour, so a stretch of consecutive positions with the same attributes
\* is one part, wrapped in one pair of tags.
C24_MaximalSpans ==
    ~sc_faulted =>
       \A k \in 1..(Len(sc_html_parts) - 1) :
          sc_html_parts[k].format # sc_html_parts[k + 1].format

\* C24 witness: a text of three characters was read without a raise and
\* gave two parts, one of them over two characters with the same
\* attributes.
C24_Witness ==
    /\ sc_state = "returned"
    /\ ~sc_faulted
    /\ Len(sc_chars) = 3
    /\ Len(sc_html_parts) = 2
    /\ \E k \in 1..2 : Len(sc_html_parts[k].text) = 2


\* the characters emitted so far, in the order of emission
EmittedText ==
    Flatten([k \in 1..Len(sc_html_parts) |-> sc_html_parts[k].text])

\* i and current_pos name the same character, and the parts emitted are
\* the characters before it, each one once and in order
ScanInStep ==
    /\ sc_state = "scanning" => sc_current_pos = sc_i + 1
    /\ sc_i <= Len(sc_chars)
    /\ EmittedText = FullText(sc_chars, 0, sc_i)
    /\ sc_state = "returned" => sc_i = Len(sc_chars)

\* C25: the scan returns for every text and every behaviour of the style
\* queries; each iteration moves the index i forward, i stays in step with
\* the 1-based position current_pos, and the characters emitted are those
\* of the text, each exactly once and in order.
C25_ScanTerminates ==
    /\ []ScanInStep
    /\ [][sc_html_parts' # sc_html_parts => sc_i' > sc_i]_vars
    /\ <>(sc_state = "returned")

\* C25 witness: a scan returned after a query raised at a first character
\* (the part is the bare character) next to a part of two characters.
C25_Witness ==
    /\ sc_state = "returned"
    /\ Len(sc_chars) = 3
    /\ \E j, k \in 1..Len(sc_html_parts) :
          /\ sc_html_parts[j].fallback
          /\ Len(sc_html_parts[k].text) = 2

(***************************************************************************)
(* When the cached reader reads.  Both readers have the same three         *)
(* methods (lightning_slide_context_reader.py:559-603 and                  *)
(* slide_context_reader.py:638-682); the agent uses the first.  A          *)
(* presentation window is open, so get_current_slide_index answers the     *)
(* slide shown.                                                            *)
(***************************************************************************)
\* the test of line 569
CacheMisses ==
    \/ active_slide # current_slide_index
    \/ current_slide_context = NoContext

\* the cache after a read of the slide shown
CacheRefreshed ==
    /\ ctx_read'
    /\ current_slide_index' = active_slide
    /\ current_slide_context' = [slide |-> active_slide,
                                 rev |-> slide_rev[active_slide]]
    /\ ctx_returned' = current_slide_context'

NameLiteral(name) ==
    CASE name = <<"r", "e", "d">> -> <<"#", "f", "f", "0", "0", "0", "0">>
      [] name = <<"b", "l", "u", "e">> -> <<"#", "0", "0", "0", "0", "f", "f">>
      [] name = <<"g", "r", "e", "e", "n">>
            -> <<"#", "0", "0", "f", "f", "0", "0">>
      [] name = <<"y", "e", "l", "l", "o", "w">>
            -> <<"#", "f", "f", "f", "f", "0", "0">>
      [] name = <<"b", "l", "a", "c", "k">>
            -> <<"#", "0", "0", "0", "0", "0", "0">>
      [] name = <<"w", "h", "i", "t", "e">>
            -> <<"#", "f", "f", "f", "f", "f", "f">>

NamesWithLiteral ==
    {<<"r", "e", "d">>, <<"b", "l", "u", "e">>, <<"g", "r", "e", "e", "n">>,
     <<"y", "e", "l", "l", "o", "w">>, <<"b", "l", "a", "c", "k">>,
     <<"w", "h", "i", "t", "e">>}

\* the values the colour statement writes for the colour value c on a
\* target that raises nothing
ColorWritten(c) ==
    Only({{body.calls[k].value : k \in 1..Len(body.calls)}
          : body \in {ColorBody(1, Segment(1, 1,
                                           DictSet(NoFormatting, "color", c)),
                                {})}})

\* C27: the integer an applier writes to Font.Color.RGB for a colour name
\* is the integer it writes for the name's "#RRGGBB" literal.
C27_NamedColorMatchesHex ==
    Done =>
       \A i \in 1..Len(ap_segments) :
          Only({(("color" \in ap_segments[i].formatting.keys
                  /\ name \in NamesWithLiteral) =>
                    \A k \in 1..Len(calls) :
                       (calls[k].run = i /\ calls[k].op = "Color")
                          => {calls[k].value} = ColorWritten(NameLiteral(name)))
                : name \in {Lower(ap_segments[i].formatting.color)}})

(***************************************************************************)
(* The replacement branch against the applier.  The runs of an HTML        *)
(* replacement are applied by the statements of lines 487-534 of           *)
(* ppt_smolagent.py; apply_html_formatting applies a run by lines 250-306  *)
(* of html_processor.py.  Compared are the attributes written and their    *)
(* values, whichever member stands for strikethrough.                      *)
(***************************************************************************)
\* the attribute and value of each write among the calls cs
Writes(cs) ==
    {<<FieldOf(cs[n].op), cs[n].value>> :
        n \in {m \in 1..Len(cs) :
                  cs[m].ok /\ cs[m].op \notin {"Text", "MatchText",
                                               "Characters"}}}

\* what apply_html_formatting writes for the runs segments of plain on a
\* target that raises nothing
ApplierWrites(plain, segments) ==
    Writes(apply_html_formatting(plain, segments, {}).calls)

\* C28: for every match replaced by an HTML replacement, the attributes
\* written for the runs of the replacement, with their values, are those
\* apply_html_formatting writes for the same runs.
C28_ReplaceAppliesAsApplier ==
    (mt_state = "returned" /\ mt_report = "replaced"
     /\ HasHtmlMarker(mt_replacement)) =>
       Only({(\A k \in {mt_calls[n].run : n \in 1..Len(mt_calls)} :
                 Writes(SelectSeq(mt_calls, LAMBDA c : c.run = k))
                    = ApplierWrites(parsed.plain, parsed.segments))
             : parsed \in {parse_html_text(
                              process_html_lists(mt_replacement).text)}})

(***************************************************************************)
(* A colour written and read back.  apply_html_formatting packs "#RRGGBB"  *)
(* into Font.Color.RGB (html_processor.py:279-285).  The reader of         *)
(* slide_context_reader.py unpacks it as HexColor does; the reader the     *)
(* agent imports, convert_powerpoint_text_to_html_lightning, unpacks the   *)
(* colour of a run by lines 262-265 of lightning_slide_context_reader.py.  *)
(***************************************************************************)
\* r = color_bgr & 0xFF, g = (color_bgr >> 8) & 0xFF,
\* b = (color_bgr >> 16) & 0xFF, hex_color = f"#{r:02x}{g:02x}{b:02x}"
HexColorLightning(color_bgr) ==
    <<"#">> \o Hex2(color_bgr % 256)
            \o Hex2((color_bgr \div 256) % 256)
            \o Hex2((color_bgr \div 65536) % 256)

\* the colour literal c comes back from the value v as the same literal,
\* in lower case, from both readers
ReadsBack(c, v) ==
    /\ HexColor(v) = Lower(c)
    /\ HexColorLightning(v) = Lower(c)

\* C29: a colour "#RRGGBB" other than black that apply_html_formatting
\* has written to Font.Color.RGB is unpacked by
\* convert_powerpoint_text_to_html and by
\* convert_powerpoint_text_to_html_lightning to the same "#rrggbb".
C29_ColorReadBack ==
    (Done /\ applier = "html") =>
       \A i \in 1..Len(ap_segments) :
          ("color" \in ap_segments[i].formatting.keys
           /\ IsTableLiteral(ap_segments[i].formatting.color)) =>
             \A k \in 1..Len(calls) :
                (/\ calls[k].run = i
                 /\ calls[k].op = "Color"
                 /\ calls[k].ok
                 /\ calls[k].value # 0)
                => ReadsBack(ap_segments[i].formatting.color, calls[k].value)

(***************************************************************************)
(* parse_markdown_text call by call.  nest_stack holds one frame for each  *)
(* call in progress: its argument (text), its plain_text and segments, the *)
(* pattern of the pass it is in (k), the matches of that pass and the      *)
(* number of them still to process (the loop runs over reversed(matches)), *)
(* and where it stands: "find" before re.finditer, "loop" inside the for   *)
(* loop over the matches, "sort" after the last pass.                      *)
(***************************************************************************)
MaxNest == 3        \* fragments concatenated into an input of the call stack

NestPieces ==
    << MdPieces[9], MdPieces[10], MdPieces[11], MdPieces[12], MdPieces[5] >>

\* "{/b" and "g}": a closer of a background block that a colour block in
\* between keeps apart
SplitCloser(between) == <<"{", "/", "b">> \o between \o <<"g", "}">>

\* inputs that nest blocks in blocks, as sequences of fragments
NestAttempts ==
    { Flatten(<<NestPieces[1], NestPieces[3], NestPieces[5], NestPieces[4],
                NestPieces[2]>>),
      Flatten(<<NestPieces[1], NestPieces[3], NestPieces[1], NestPieces[2],
                NestPieces[4], NestPieces[2]>>),
      Flatten(<<NestPieces[3], NestPieces[1], NestPieces[3], NestPieces[4],
                NestPieces[2], NestPieces[4]>>),
      Flatten(<<NestPieces[3], NestPieces[1], NestPieces[1], NestPieces[5],
                NestPieces[2], NestPieces[2], NestPieces[4]>>),
      Flatten(<<NestPieces[3], NestPieces[3],
                NestPieces[1], NestPieces[1], NestPieces[1], <<"x">>,
                NestPieces[2], NestPieces[2], NestPieces[2],
                SplitCloser(Flatten(<<NestPieces[1], NestPieces[1],
                                      NestPieces[2], NestPieces[2]>>)),
                NestPieces[4]>>) }

NestTexts ==
    NestAttempts
    \cup UNION { { Flatten([k \in 1..n |-> NestPieces[f[k]]]) :
                      f \in [1..n -> 1..Len(NestPieces)] } : n \in 0..MaxNest }

\* the state of a call at its first statement (lines 23-50)
NewFrame(text) ==
    [text |-> text, plain |-> text, segments |-> <<>>, k |-> 1,
     phase |-> "find", matches |-> <<>>, n |-> 0]

Top == nest_stack[Len(nest_stack)]

Caller == nest_stack[Len(nest_stack) - 1]

Calling == mode = "nest" /\ nest_stack # <<>>

\* a nested call that would be given the whole block, markers included
NestedWholeMatch(plain, m) == Slice(plain, m.start, m.end)

\* nested_content = match.group(2)
NestedContent(plain, m) == m.g2

InitNest ==
    /\ mode = "nest"
    /\ IdleHtml
    /\ IdleMd
    /\ IdleApply
    /\ IdleLists
    /\ IdleWrite
    /\ IdleRound
    /\ IdleContext
    /\ IdleModify
    /\ IdleScan
    /\ nest_text \in NestTexts
    /\ nest_stack = <<NewFrame(nest_text)>>
    /\ nest_result = NotReturned

NestIdleRest ==
    UNCHANGED <<mode, nest_text, htmlVars, mdVars, apVars, listVars, wpVars,
                rtVars, ctxVars, mtVars, scVars>>

SetTop(f) == [nest_stack EXCEPT ![Len(nest_stack)] = f]

\* matches = list(re.finditer(pattern, plain_text, re.DOTALL))
BeginPass ==
    /\ Calling
    /\ Top.phase = "find"
    /\ LET matches == FindAll(Patterns[Top.k], Top.plain, 0)
       IN  nest_stack' = SetTop([Top EXCEPT !.phase = "loop",
                                            !.matches = matches,
                                            !.n = Len(matches)])
    /\ UNCHANGED nest_result
    /\ NestIdleRest

\* the body of the loop for a pattern without nested content (lines 91-104)
PlainMatch ==
    /\ Calling
    /\ Top.phase = "loop"
    /\ Top.n > 0
    /\ Patterns[Top.k].kind # "block"
    /\ LET st == ProcessMatch(Patterns[Top.k],
                              [plain |-> Top.plain,
                               segments |-> Top.segments],
                              Top.matches[Top.n])
       IN  nest_stack' = SetTop([Top EXCEPT !.plain = st.plain,
                                            !.segments = st.segments,
                                            !.n = @ - 1])
    /\ UNCHANGED nest_result
    /\ NestIdleRest

\* parse_markdown_text(nested_content) is entered (line 66)
CallNested ==
    /\ Calling
    /\ Top.phase = "loop"
    /\ Top.n > 0
    /\ Patterns[Top.k].kind = "block"
    /\ nest_stack' =
          Append(nest_stack,
                 NewFrame(NestedContent(Top.plain, Top.matches[Top.n])))
    /\ UNCHANGED nest_result
    /\ NestIdleRest

\* the matches of a pass are used up: the next pattern, or the end of the
\* loop over the patterns
EndPass ==
    /\ Calling
    /\ Top.phase = "loop"
    /\ Top.n = 0
    /\ nest_stack' =
          SetTop(IF Top.k < Len(Patterns)
                 THEN [Top EXCEPT !.k = @ + 1, !.phase = "find",
                                  !.matches = <<>>]
                 ELSE [Top EXCEPT !.phase = "sort", !.matches = <<>>])
    /\ UNCHANGED nest_result
    /\ NestIdleRest

\* a nested call sorts and returns, and its caller finishes the body of
\* the loop for the block (lines 66-84)
ReturnNested ==
    /\ Calling
    /\ Len(nest_stack) >= 2
    /\ Top.phase = "sort"
    /\ LET nested_plain == Top.plain
           nested_segments == SortByStart(Top.segments)
           m == Caller.matches[Caller.n]
           after ==
              [Caller EXCEPT
                 !.plain = Replace(Caller.plain, m, nested_plain),
                 !.segments =
                    Append(Caller.segments,
                           Segment(RunStart(m), Len(nested_plain),
                                   DictSet(NoFormatting,
                                           Patterns[Caller.k].key, m.g1)))
                    \o RebaseNested(m, nested_segments),
                 !.n = @ - 1]
       IN  nest_stack' =
              Append(SubSeq(nest_stack, 1, Len(nest_stack) - 2), after)
    /\ UNCHANGED nest_result
    /\ NestIdleRest

\* the outermost call sorts and returns (lines 106-109)
ReturnTop ==
    /\ Calling
    /\ Len(nest_stack) = 1
    /\ Top.phase = "sort"
    /\ nest_result' = Returned(Top.plain, SortByStart(Top.segments))
    /\ nest_stack' = <<>>
    /\ NestIdleRest

NextNest ==
    \/ BeginPass
    \/ PlainMatch
    \/ CallNested
    \/ EndPass
    \/ ReturnNested
    \/ ReturnTop

SpecNest == InitNest /\ [][NextNest]_vars

\* a call that is not waiting for anything takes its next step
SpecNestRuns == SpecNest /\ WF_vars(NextNest)

Returns == nest_result.returned

\* the calls in progress, the outermost one not counted
NestedCalls == IF nest_stack = <<>> THEN 0 ELSE Len(nest_stack) - 1

\* the text a nested call was given holds no complete block of the kind
\* whose content it is
CapturedHoldsNoBlock ==
    \A d \in 2..Len(nest_stack) :
       FindAll(Patterns[nest_stack[d - 1].k], nest_stack[d].text, 0) = <<>>

\* a call's plain_text never outgrows its argument, and a nested call's
\* argument is shorter than the plain_text of the call that made it
NestedShorter ==
    \A d \in 1..Len(nest_stack) :
       /\ Len(nest_stack[d].plain) <= Len(nest_stack[d].text)
       /\ d >= 2 => Len(nest_stack[d].text) < Len(nest_stack[d - 1].plain)

\* the outermost call is in its pass over the colour blocks
InColorPass == nest_stack # <<>> /\ nest_stack[1].k = 1

\* C30 as stated: parse_markdown_text returns on every input, never has
\* more than two nested calls in progress below the outermost call, and
\* the content captured by a colour block holds no complete colour block,
\* the content captured by a background block no complete background block.
C30_ReturnsWithinDepthTwo ==
    /\ <>Returns
    /\ [](NestedCalls <= 2)
    /\ []CapturedHoldsNoBlock

\* C30 amended: parse_markdown_text returns on every input; the content a
\* block captures holds no complete block of its own kind; every nested
\* call is given a text shorter than the plain text of its caller, which
\* bounds the depth by the length of the input; and below the outermost
\* call's pass over the colour blocks there are never more than two nested
\* calls in progress.
C30_ReturnsNestingShorter ==
    /\ <>Returns
    /\ []CapturedHoldsNoBlock
    /\ []NestedShorter
    /\ [](InColorPass => NestedCalls <= 2)

\* C30 witness: three nested calls in progress below the outermost call's
\* pass over the background blocks, the innermost on the text "x".
C30_Witness ==
    /\ NestedCalls = 3
    /\ nest_stack[1].k = 2
    /\ Top.text = <<"x">>
    /\ NestedShorter

(***************************************************************************)
(* The components side by side.                                            *)
(***************************************************************************)
Init ==
    \/ InitHtml
    \/ InitMd
    \/ InitApply
    \/ InitMdLists
    \/ InitHtmlLists
    \/ InitWrite
    \/ InitRound
    \/ InitContext
    \/ InitModify
    \/ InitScan
    \/ InitNest

Next ==
    \/ NextHtml
    \/ NextMd
    \/ NextApply
    \/ NextMdLists
    \/ NextHtmlLists
    \/ NextWrite
    \/ NextRound
    \/ NextContext
    \/ NextModify
    \/ NextScan
    \/ NextNest

Spec == Init /\ [][Next]_vars
=============================================================================
